---- MODULE Spec2Model ----
(***************************************************************************)
(* Model of the structured-document parser and query engine of            *)
(* ro_law_mcp: header detection and validation, the recursive tree        *)
(* builder, the amendment parser and the StructuredDocument facade.       *)
(*                                                                         *)
(* A document text is a sequence of tokens.  A token stands for one word  *)
(* of the text (words are separated by single blanks), "NL" stands for    *)
(* the newline character.  Offsets are 0-based token offsets, as Python's *)
(* string offsets are 0-based character offsets; every keyword is one     *)
(* token long.                                                            *)
(***************************************************************************)
EXTENDS Integers, Sequences, FiniteSets, TLC

VARIABLES
    text,                   \* base_document.text
    url,                    \* base_document.url ("None" or a URL)
    response,               \* what the action-history endpoint will answer
    nodes,                  \* the DocumentElement objects, in creation order (1 = top)
    articles,               \* StructuredDocument.articles: number -> node id
    elements,               \* StructuredDocument.elements: node ids (keyed by uuid)
    last_valid_article_no,  \* Validator.last_valid_article_no
    stack,                  \* call stack of _find_elements_recursive
    amendment_data,         \* StructuredDocument.amendment_data
    art_amendment_map,      \* StructuredDocument.art_amendment_map
    status,                 \* "building" | "structured" | "done" | "raised"
    result,                 \* what the last operation returned
    built_documents,        \* StructuredDocumentService.built_documents
    calls                   \* the calls of get_document and where each one is

vars == <<text, url, response, nodes, articles, elements, last_valid_article_no,
          stack, amendment_data, art_amendment_map, status, result,
          built_documents, calls>>

----------------------------------------------------------------------------
(* Bounds of the model *)

MaxLines == 4
MaxRows == 2

----------------------------------------------------------------------------
(* Python values *)

None == "None"
NL == "NL"

Min(a, b) == IF a < b THEN a ELSE b

\* s[a:b] for 0 <= a and 0 <= b
Slice(s, a, b) == SubSeq(s, a + 1, Min(b, Len(s)))

\* s[a:]
SliceFrom(s, a) == SubSeq(s, a + 1, Len(s))

\* str.find: smallest offset at which kw occurs in s, -1 if none
Find(s, kw) ==
    LET hits == {i \in 0..(Len(s) - Len(kw)) : SubSeq(s, i + 1, i + Len(kw)) = kw}
    IN  IF hits = {} THEN -1 ELSE CHOOSE i \in hits : \A j \in hits : i <= j

\* str.split(): the words of a line
Words(s) == s

ROMAN_NUMERALS ==
    <<"I", "II", "III", "IV", "V", "VI", "VII", "VIII", "IX", "X",
      "XI", "XII", "XIII", "XIV", "XV", "XVI", "XVII", "XVIII", "XIX", "XX">>

InRoman(w) == \E i \in 1..Len(ROMAN_NUMERALS) : ROMAN_NUMERALS[i] = w

\* list.index, 0-based
RomanIndex(w) == (CHOOSE i \in 1..Len(ROMAN_NUMERALS) : ROMAN_NUMERALS[i] = w) - 1

\* The decimal numerals the model's texts can hold: int(w) and str(n)
Decimals == <<"0", "1", "2", "3", "4", "5", "6", "7", "8", "9", "10",
              "11", "12", "13", "14", "15", "16", "17", "18", "19", "20">>

IsInt(w) == \E i \in 1..Len(Decimals) : Decimals[i] = w
IntOf(w) == (CHOOSE i \in 1..Len(Decimals) : Decimals[i] = w) - 1
StrOf(n) == Decimals[n + 1]

\* len(w) == 1 and w.isalpha(), and ord(w.upper()) - ord("A") + 1
Letters == {"a", "x", "I", "V", "X"}
IsSingleLetter(w) == w \in Letters
LetterNo(w) ==
    CASE w = "a" -> "1"
      [] w = "x" -> "24"
      [] w = "I" -> "9"
      [] w = "V" -> "22"
      [] w = "X" -> "24"
      [] OTHER -> "0"

\* w.endswith("-a") and w[:-2]
EndsWithDashA(w) == w \in {"2-a", "x-a"}
StripDashA(w) == IF w = "2-a" THEN "2" ELSE "x"

\* len(s) of a line: the characters of its words and the blanks between them
TokLen(w) == IF w = "LONG" THEN 501 ELSE 3
RECURSIVE StrLen(_)
StrLen(s) == IF s = <<>> THEN 0
             ELSE TokLen(Head(s)) + (IF Len(s) > 1 THEN 1 ELSE 0) + StrLen(Tail(s))

----------------------------------------------------------------------------
(* DocumentElementType *)

TOP == 0
PART == 1
BOOK == 2
TITLE == 3
CHAPTER == 4
SECTION == 5
ARTICLE == 6

get_hierarchy == <<TOP, PART, BOOK, TITLE, CHAPTER, SECTION, ARTICLE>>

HierarchyIndex(t) == (CHOOSE i \in 1..Len(get_hierarchy) : get_hierarchy[i] = t) - 1

to_keyword(t) ==
    CASE t = PART -> <<"PARTEA">>
      [] t = BOOK -> <<"Cartea">>
      [] t = TITLE -> <<"Titlul">>
      [] t = CHAPTER -> <<"Capitolul">>
      [] t = SECTION -> <<"Sectiunea">>
      [] t = ARTICLE -> <<"Articolul">>
      [] OTHER -> <<>>

\* to_keyword(t) is None
NoKeyword(t) == to_keyword(t) = <<>>

get_possible_child_types(t) ==
    SubSeq(get_hierarchy, HierarchyIndex(t) + 2, Len(get_hierarchy))

get_possible_equal_or_greater_types(t) ==
    IF t = TOP THEN <<>> ELSE SubSeq(get_hierarchy, 1, HierarchyIndex(t) + 1)

----------------------------------------------------------------------------
(* Validator (structured_document/utils/validator.py)                      *)
(* A validation answers "accept" or "reject", or "raise" when the Python   *)
(* code raises an exception that nothing in the build catches.             *)

Accept == "accept"
Reject == "reject"
Raise == "raise"

BOOK_MAX_LEN == 500
CHAPTER_MAX_LEN == 200
SECTION_MAX_LEN == 300

\* The string a line of words stands for, as far as the validators can tell
\* strings apart: "" for the empty line, the word itself for a line of one
\* word, and for a longer line a string that is no numeral of either kind.
JoinWords(s) ==
    IF s = <<>> THEN "" ELSE IF Len(s) = 1 THEN s[1] ELSE "<words>"

_validate_book_header(header) ==
    LET words == Words(header) IN
    IF StrLen(header) = 0 THEN Reject
    ELSE IF Len(words) = 0 THEN Reject
    ELSE IF ~InRoman(words[1]) /\ ~IsSingleLetter(words[1]) THEN Reject
    ELSE IF StrLen(header) > BOOK_MAX_LEN THEN Reject
    ELSE Accept

_validate_title_header(header) ==
    LET words == Words(header) IN
    IF Len(words) = 0 THEN Reject
    ELSE IF words[1] # "PRELIMINAR" /\ ~InRoman(words[1]) THEN Reject
    ELSE Accept

_validate_chapter_header(header) ==
    LET words == Words(header) IN
    IF Len(words) = 0 THEN Reject
    ELSE IF ~InRoman(words[1]) THEN Reject
    ELSE IF StrLen(header) > CHAPTER_MAX_LEN THEN Reject
    ELSE Accept

_validate_section_header(header) ==
    LET words == Words(header) IN
    IF Len(words) = 0 THEN Reject
    ELSE IF words[1] # "a" /\ words[1] # "1" THEN Reject
    ELSE IF words[1] # "1" /\ Len(words) < 2 THEN Raise      \* words[1]: IndexError
    ELSE IF words[1] # "1" /\ ~EndsWithDashA(words[2]) THEN Reject
    ELSE LET number_part == IF words[1] # "1" THEN StripDashA(words[2]) ELSE words[1] IN
         IF ~IsInt(number_part) THEN Reject                  \* ValueError, caught
         ELSE IF IntOf(number_part) <= 0 THEN Reject
         ELSE IF StrLen(header) > SECTION_MAX_LEN THEN Reject
         ELSE Accept

\* True iff second > first, by position in ROMAN_NUMERALS
_compare_roman_numerals(first, second) ==
    IF InRoman(first) /\ InRoman(second)
    THEN RomanIndex(second) > RomanIndex(first)
    ELSE FALSE

_is_valid_article_no(prev, curr) ==
    IF prev = None THEN TRUE
    ELSE IF InRoman(prev)
         THEN IF InRoman(curr) THEN _compare_roman_numerals(prev, curr) ELSE FALSE
    ELSE IF InRoman(curr) THEN FALSE
    ELSE IF IsInt(curr) /\ IsInt(prev) THEN IntOf(curr) > IntOf(prev)
    ELSE TRUE                                                \* except: return True

\* split("      ")[0] of the stripped row is the whole row: words are one blank apart
_validate_article(article_name_row, last) ==
    LET art_no == JoinWords(article_name_row) IN
    IF _is_valid_article_no(last, art_no) THEN Accept ELSE Reject

\* Extractor._extract_article_number (structured_document/utils/extractor.py)
Extractor_extract_article_number(first_word) ==
    IF InRoman(first_word) THEN first_word
    ELSE IF IsInt(first_word) /\ IntOf(first_word) > 0 THEN StrOf(IntOf(first_word))
    ELSE "N/A"

\* Extractor._is_valid_article_no, prev being Extractor.last_valid_art_no
Extractor_is_valid_article_no(prev, art_no) ==
    IF prev = None THEN TRUE
    ELSE IF InRoman(prev)
         THEN IF InRoman(art_no) THEN _compare_roman_numerals(prev, art_no) ELSE FALSE
    ELSE IF InRoman(art_no) THEN FALSE
    ELSE IF IsInt(art_no) /\ IsInt(prev) THEN IntOf(art_no) >= IntOf(prev)
    ELSE FALSE                                               \* except: return False

\* The phrases that mark a header as quoted in amendment prose
ref_keywords ==
    {<<"se", "modifica", "si", "va", "avea", "urmatorul", "cuprins:">>,
     <<"cu", "urmatoarea", "denumire:">>,
     <<"urmatorul", "cuprins:">>}

\* Extractor.validate_and_extract_header returns None for the preceding text
Extractor_in_amendment_quote(preceding_text) ==
    /\ preceding_text # None
    /\ \E key \in ref_keywords : Find(preceding_text, key) # -1

validate_header(header, element_type, last) ==
    CASE element_type = BOOK -> _validate_book_header(header)
      [] element_type = TITLE -> _validate_title_header(header)
      [] element_type = CHAPTER -> _validate_chapter_header(header)
      [] element_type = SECTION -> _validate_section_header(header)
      [] element_type = ARTICLE -> _validate_article(header, last)
      [] OTHER -> Reject

----------------------------------------------------------------------------
(* Number and title extraction (structured_document/utils/text_parse.py)   *)

_extract_book_number(header) ==
    LET words == Words(header) IN
    IF Len(words) = 0 THEN "0"
    ELSE IF InRoman(words[1]) THEN StrOf(RomanIndex(words[1]) + 1)
    ELSE IF IsSingleLetter(words[1]) THEN LetterNo(words[1])
    ELSE "0"

_extract_title_number(header) ==
    LET words == Words(header) IN
    IF Len(words) = 0 THEN "0" ELSE words[1]

_extract_chapter_number(header) ==
    LET words == Words(header) IN
    IF Len(words) = 0 THEN "0"
    ELSE IF InRoman(words[1]) THEN StrOf(RomanIndex(words[1]) + 1)
    ELSE "0"

_extract_section_number(header) ==
    LET words == Words(header) IN
    IF Len(words) = 0 THEN "0"
    ELSE IF words[1] = "a" /\ Len(words) > 1 /\ ~EndsWithDashA(words[2]) THEN "0"
    ELSE LET number_part == IF words[1] = "a" /\ Len(words) > 1
                            THEN StripDashA(words[2]) ELSE words[1] IN
         IF IsInt(number_part) /\ IntOf(number_part) > 0
         THEN StrOf(IntOf(number_part)) ELSE "0"

_extract_article_number(header) ==
    LET words == Words(header) IN
    IF Len(words) = 0 THEN "0"
    ELSE IF InRoman(words[1]) THEN words[1]
    ELSE IF IsInt(words[1]) /\ IntOf(words[1]) > 0 THEN StrOf(IntOf(words[1]))
    ELSE "0"

_extract_number_from_header(header, element_type) ==
    CASE element_type = BOOK -> _extract_book_number(header)
      [] element_type = TITLE -> _extract_title_number(header)
      [] element_type = CHAPTER -> _extract_chapter_number(header)
      [] element_type = SECTION -> _extract_section_number(header)
      [] element_type = ARTICLE -> _extract_article_number(header)
      [] OTHER -> "0"

\* No row of the model has a run of five blanks, so no title is split off
_try_extract_article_title(raw_text) == None

----------------------------------------------------------------------------
(* Header search (structured_document/utils/text_parse.py)                 *)
(* A header is the dict of _find_element_header; found = FALSE stands for  *)
(* None, raised = TRUE for an exception that left the search.              *)

NoHeader ==
    [found |-> FALSE, raised |-> FALSE, header |-> <<>>,
     element_start |-> -1, title_start |-> -1, title_end |-> -1]

RaisedHeader == [NoHeader EXCEPT !.raised = TRUE]

_find_element_header(txt, element_type) ==
    LET keyword == to_keyword(element_type)
        element_start == Find(txt, keyword)
        title_start == element_start + Len(keyword)
        part_title_end == Find(SliceFrom(txt, title_start), <<NL>>)
        full_title_end == IF part_title_end = -1 THEN Len(txt)
                          ELSE title_start + part_title_end
    IN  IF NoKeyword(element_type) THEN NoHeader
        ELSE IF element_start = -1 THEN NoHeader
        ELSE [found |-> TRUE, raised |-> FALSE,
              header |-> Slice(txt, title_start, full_title_end),
              element_start |-> element_start,
              title_start |-> title_start,
              title_end |-> full_title_end]

\* The offsets of a header found in txt[skip_pos:], as offsets into txt
ShiftHeader(next, skip_pos) ==
    IF next.found
    THEN [next EXCEPT !.element_start = @ + skip_pos,
                      !.title_start = @ + skip_pos,
                      !.title_end = @ + skip_pos]
    ELSE next

\* Where the search goes on after a rejected header (text_parse.py line 95)
SkipPos(header, keyword) == header.element_start + Len(keyword)

RECURSIVE _find_next_valid_header(_, _, _)

\* _find_next_valid_header once the first header is found and validated
ValidOrNextHeader(txt, element_type, last, header, valid) ==
    IF valid = Raise THEN RaisedHeader
    ELSE IF valid = Accept THEN header
    ELSE ShiftHeader(_find_next_valid_header(
                         SliceFrom(txt, SkipPos(header, to_keyword(element_type))),
                         element_type, last),
                     SkipPos(header, to_keyword(element_type)))

\* _find_next_valid_header once the first occurrence of the keyword is known
NextValidHeaderFrom(txt, element_type, last, header) ==
    IF ~header.found THEN NoHeader
    ELSE ValidOrNextHeader(txt, element_type, last, header,
                           validate_header(header.header, element_type, last))

_find_next_valid_header(txt, element_type, last) ==
    NextValidHeaderFrom(txt, element_type, last, _find_element_header(txt, element_type))

\* The end of an element, as an offset into txt: [raised, end]
RECURSIVE FindEndAmong(_, _, _)

\* One pass of the while loop of _find_element_end, the next header being known
FindEndStep(txt, valid_siblings, last, next_e_header) ==
    IF next_e_header.raised THEN [raised |-> TRUE, end |-> -1]
    ELSE IF next_e_header.found
    THEN [raised |-> FALSE, end |-> next_e_header.element_start]
    ELSE FindEndAmong(txt, Tail(valid_siblings), last)

FindEndAmong(txt, valid_siblings, last) ==
    IF valid_siblings = <<>> THEN [raised |-> FALSE, end |-> Len(txt)]
    ELSE FindEndStep(txt, valid_siblings, last,
                     _find_next_valid_header(txt, Head(valid_siblings), last))

_find_element_end(txt, element_type, last) ==
    FindEndAmong(txt, get_possible_equal_or_greater_types(element_type), last)

\* The element_draft of find_element; found = FALSE stands for None
NoDraft ==
    [found |-> FALSE, raised |-> FALSE, type |-> TOP, header |-> <<>>,
     start |-> -1, end |-> -1]

RaisedDraft == [NoDraft EXCEPT !.raised = TRUE]

\* The absolute end of a drafted element (text_parse.py line 45)
ElementEndNoHeader(e_end, offset, next_search_start) == e_end + offset

ElementEnd(e_end, offset, next_search_start) == e_end + offset + next_search_start

\* The draft after a type whose header e_header ends at e_end was looked at:
\* the earliest header so far wins (text_parse.py 37-46)
BetterDraft(element_draft, e_type, e_header, e_end, offset) ==
    IF ~element_draft.found \/ e_header.element_start + offset < element_draft.start
    THEN [found |-> TRUE, raised |-> FALSE, type |-> e_type,
          header |-> e_header.header,
          start |-> e_header.element_start + offset,
          end |-> ElementEnd(e_end.end, offset, e_header.title_end)]
    ELSE element_draft

RECURSIVE FindDraft(_, _, _, _, _)

\* One pass of the while loop of find_element with the type's header and end
FindDraftEnd(txt, valid_types, offset, last, element_draft, e_header, e_end) ==
    IF e_end.raised THEN RaisedDraft
    ELSE FindDraft(txt, Tail(valid_types), offset, last,
                   BetterDraft(element_draft, Head(valid_types), e_header, e_end, offset))

\* One pass of the while loop of find_element with the type's header
FindDraftHeader(txt, valid_types, offset, last, element_draft, e_header) ==
    IF e_header.raised THEN RaisedDraft
    ELSE IF ~e_header.found
    THEN FindDraft(txt, Tail(valid_types), offset, last, element_draft)
    ELSE FindDraftEnd(txt, valid_types, offset, last, element_draft, e_header,
                      _find_element_end(SliceFrom(txt, e_header.title_end),
                                        Head(valid_types), last))

\* The while loop of find_element over the types left
FindDraft(txt, valid_types, offset, last, element_draft) ==
    IF valid_types = <<>> THEN element_draft
    ELSE FindDraftHeader(txt, valid_types, offset, last, element_draft,
                         _find_next_valid_header(txt, Head(valid_types), last))

\* The title of a drafted element (text_parse.py 52-57)
ElementTitle(element_draft) ==
    IF element_draft.type = ARTICLE
    THEN (IF _try_extract_article_title(element_draft.header) = None
          THEN <<"N/A">> ELSE element_draft.header)
    ELSE element_draft.header

\* The DocumentElement made of a draft and of its number, with the
\* validator's last_valid_article_no after the call
DraftedElement(element_draft, number, last) ==
    IF element_draft.raised
    THEN [found |-> FALSE, raised |-> TRUE, last |-> last]
    ELSE IF ~element_draft.found
    THEN [found |-> FALSE, raised |-> FALSE, last |-> last]
    ELSE [found |-> TRUE, raised |-> FALSE,
          type_name |-> element_draft.type,
          number |-> number,
          title |-> ElementTitle(element_draft),
          start_pos |-> element_draft.start,
          end_pos |-> element_draft.end,
          last |-> IF element_draft.type = ARTICLE THEN number ELSE last]

ElementOfDraft(element_draft, last) ==
    DraftedElement(element_draft,
                   _extract_number_from_header(element_draft.header, element_draft.type),
                   last)

\* The DocumentElement find_element returns (found = FALSE: None)
find_element(txt, valid_types, offset, last) ==
    ElementOfDraft(FindDraft(txt, valid_types, offset, last, NoDraft), last)

----------------------------------------------------------------------------
(* StructuredDocumentBuilder (structured_document/builder.py)              *)

\* max_depth of an element that was never assigned one
NoDepth == -1

\* DocumentElement.__init__, with the parent add_child sets
DocumentElement(type_name, number, title, start_pos, end_pos, parent) ==
    [type_name |-> type_name, number |-> number, title |-> title,
     start_pos |-> start_pos, end_pos |-> end_pos, parent |-> parent,
     max_depth |-> NoDepth]

\* element.children, as node ids in the order add_child appended them
Children(ns, p) ==
    SelectSeq([i \in 1..Len(ns) |-> i], LAMBDA i : ns[i].parent = p)

\* A call of _find_elements_recursive(element): phase "scan" is the loop of
\* _build_element_structure, phase "recurse" the loop over the children
Frame(element, type_name) ==
    [element |-> element, phase |-> "scan", search_start |-> 0,
     valid_types |-> get_possible_child_types(type_name),
     prev |-> 0, preceding_text |-> None, child_idx |-> 1, new_max |-> 1]

TopFrame == stack[Len(stack)]

SetTop(st, f) == [st EXCEPT ![Len(st)] = f]

ParentText(f) == Slice(text, nodes[f.element].start_pos, nodes[f.element].end_pos)

\* StructuredDocument.add_article: the first article of a number stays
add_article(arts, number, id) ==
    IF number \in DOMAIN arts THEN arts ELSE (number :> id) @@ arts

NextValidTypesKeepParent(e_type, parent_type) ==
    get_possible_equal_or_greater_types(e_type)

\* valid_types after a child of type e_type was added (builder.py 99-106)
NextValidTypes(e_type, parent_type) ==
    LET types == get_possible_equal_or_greater_types(e_type)
        parent_index == HierarchyIndex(parent_type)
    IN  IF \E i \in 1..Len(types) : types[i] = parent_type
        THEN SubSeq(types, parent_index + 2, Len(types))
        ELSE types

\* The lines of a document, joined by newlines
RECURSIVE JoinLines(_)
JoinLines(ls) ==
    IF ls = <<>> THEN <<>>
    ELSE IF Len(ls) = 1 THEN ls[1]
    ELSE ls[1] \o <<NL>> \o JoinLines(Tail(ls))

TextsOf(LineSet) ==
    {JoinLines(ls) : ls \in UNION {[1..n -> LineSet] : n \in 0..MaxLines}}

NoValue == [kind |-> "None"]

\* StructuredDocumentBuilder.__init__ for a document of the given text and url
BuilderInit(Texts, Urls, Responses) ==
    /\ text \in Texts
    /\ url \in Urls
    /\ response \in Responses
    /\ nodes = <<DocumentElement(TOP, "0", <<>>, 0, Len(text), 0)>>
    /\ articles = <<>>
    /\ elements = {1}
    /\ last_valid_article_no = None
    /\ stack = <<Frame(1, TOP)>>
    /\ amendment_data = NoValue
    /\ art_amendment_map = <<>>
    /\ status = "building"
    /\ result = NoValue
    /\ built_documents = <<>>
    /\ calls = <<>>

\* The scan going on from where the child begins
AdvanceFrameToStart(f, parent, element, id) ==
    [f EXCEPT !.search_start = element.start_pos - parent.start_pos]

\* valid_types, prev and search_start after a child was added (builder.py 99-117)
AdvanceFrame(f, parent, element, id) ==
    [f EXCEPT
       !.valid_types = IF f.prev = 0 \/ element.type_name # nodes[f.prev].type_name
                       THEN NextValidTypes(element.type_name, parent.type_name)
                       ELSE @,
       !.prev = IF f.prev # 0 /\ element.type_name = nodes[f.prev].type_name
                THEN id ELSE @,
       !.search_start = element.end_pos - parent.start_pos]

\* The body of the while loop once find_element returned element
AddFoundElement(f, parent, element, id) ==
    IF element.raised
    THEN /\ status' = "raised"
         /\ UNCHANGED <<nodes, articles, elements, last_valid_article_no, stack>>
    ELSE IF ~element.found
    THEN /\ stack' = SetTop(stack, [f EXCEPT !.phase = "recurse"])
         /\ UNCHANGED <<nodes, articles, elements, last_valid_article_no, status>>
    ELSE /\ nodes' = Append(nodes,
                            DocumentElement(element.type_name, element.number,
                                            element.title, element.start_pos,
                                            element.end_pos, f.element))
         /\ articles' = IF element.type_name = ARTICLE
                        THEN add_article(articles, element.number, id)
                        ELSE articles
         /\ elements' = IF element.type_name # ARTICLE /\ element.type_name # TOP
                        THEN elements \cup {id} ELSE elements
         /\ last_valid_article_no' = element.last
         /\ stack' = SetTop(stack, AdvanceFrame(f, parent, element, id))
         /\ UNCHANGED status

\* find_next_element as _build_element_structure calls it for frame f.  The
\* module utils/text_parse.py defines no TextParser class: the call is taken
\* to run the module's find_element with the builder's Validator, and the
\* preceding_text it is given, None on every call, to be of no effect
FindNextElement(f, parent) ==
    find_element(SliceFrom(ParentText(f), f.search_start), f.valid_types,
                 parent.start_pos + f.search_start, last_valid_article_no)

\* One iteration of the while loop of _build_element_structure
BuildElementStructureStep ==
    /\ status = "building"
    /\ stack # <<>>
    /\ TopFrame.phase = "scan"
    /\ TopFrame.search_start < Len(ParentText(TopFrame))
    /\ AddFoundElement(TopFrame, nodes[TopFrame.element],
                       FindNextElement(TopFrame, nodes[TopFrame.element]),
                       Len(nodes) + 1)
    /\ UNCHANGED <<built_documents, calls, text, url, response, amendment_data,
                   art_amendment_map, result>>

\* The while loop ends: the parent's text is used up
BuildElementStructureEnd ==
    /\ status = "building"
    /\ stack # <<>>
    /\ TopFrame.phase = "scan"
    /\ TopFrame.search_start >= Len(ParentText(TopFrame))
    /\ stack' = SetTop(stack, [TopFrame EXCEPT !.phase = "recurse"])
    /\ UNCHANGED <<built_documents, calls, text, url, response, nodes, articles, elements,
                   last_valid_article_no, amendment_data, art_amendment_map,
                   status, result>>

\* The first child at or after position idx that is no article (0: none)
NextNonArticle(children, idx) ==
    LET later == {i \in idx..Len(children) : nodes[children[i]].type_name # ARTICLE}
    IN  IF later = {} THEN 0 ELSE CHOOSE i \in later : \A j \in later : i <= j

\* _find_elements_recursive calls itself for the next child that is no article
FindElementsRecursiveCall ==
    /\ status = "building"
    /\ stack # <<>>
    /\ TopFrame.phase = "recurse"
    /\ LET f == TopFrame
           children == Children(nodes, f.element)
           i == NextNonArticle(children, f.child_idx)
       IN  /\ i # 0
           /\ stack' = Append(SetTop(stack, [f EXCEPT !.child_idx = i]),
                              Frame(children[i], nodes[children[i]].type_name))
    /\ UNCHANGED <<built_documents, calls, text, url, response, nodes, articles, elements,
                   last_valid_article_no, amendment_data, art_amendment_map,
                   status, result>>

\* new_max after a child returned depth (builder.py 67-71)
NewMax(new_max, depth) ==
    IF depth > new_max THEN depth
    ELSE IF depth = new_max THEN new_max + 1
    ELSE new_max

\* _find_elements_recursive returns to its caller
FindElementsRecursiveReturn ==
    /\ status = "building"
    /\ stack # <<>>
    /\ TopFrame.phase = "recurse"
    /\ LET f == TopFrame
           children == Children(nodes, f.element)
           depth == IF Len(children) = 0 THEN 0 ELSE f.new_max
           rest == SubSeq(stack, 1, Len(stack) - 1)
       IN  /\ NextNonArticle(children, f.child_idx) = 0
           /\ nodes' = IF Len(children) = 0 THEN nodes
                       ELSE [nodes EXCEPT ![f.element].max_depth = f.new_max]
           /\ IF rest = <<>>
              THEN /\ stack' = rest
                   /\ status' = "structured"
              ELSE /\ stack' = SetTop(rest,
                          [rest[Len(rest)] EXCEPT
                              !.new_max = NewMax(@, depth),
                              !.child_idx = @ + 1])
                   /\ UNCHANGED status
    /\ UNCHANGED <<built_documents, calls, text, url, response, articles, elements,
                   last_valid_article_no,
                   amendment_data, art_amendment_map, result>>

----------------------------------------------------------------------------
(* AmendmentParser (document_amendments/amendment_parser.py)               *)
(* A Python value that is compared across types is a record of its class   *)
(* and its name: members of different enum classes, and an enum member and *)
(* a string, are never equal.                                              *)

PartType(name) == [cls |-> "DocumentPartType", name |-> name]
ElementType(name) == [cls |-> "DocumentElementType", name |-> name]
Str(name) == [cls |-> "str", name |-> name]
NoType == [cls |-> "NoneType", name |-> "None"]

\* {} and None, as returned where an AmendmentData is announced
EmptyDict == [kind |-> "dict"]

AmendmentData(amendments, is_document_repealed) ==
    [kind |-> "AmendmentData", amendments |-> amendments,
     is_document_repealed |-> is_document_repealed]

\* str.upper() and str.lower() of one character
LowerChars == <<"a", "b", "c", "d", "e", "f", "g", "i", "l", "m", "n", "o", "p",
                "r", "s", "t", "u", "v", "x", "z">>
UpperChars == <<"A", "B", "C", "D", "E", "F", "G", "I", "L", "M", "N", "O", "P",
                "R", "S", "T", "U", "V", "X", "Z">>

UpperChar(c) ==
    IF \E i \in 1..Len(LowerChars) : LowerChars[i] = c
    THEN UpperChars[CHOOSE i \in 1..Len(LowerChars) : LowerChars[i] = c]
    ELSE c

LowerChar(c) ==
    IF \E i \in 1..Len(UpperChars) : UpperChars[i] = c
    THEN LowerChars[CHOOSE i \in 1..Len(UpperChars) : UpperChars[i] = c]
    ELSE c

Upper(s) == [i \in 1..Len(s) |-> UpperChar(s[i])]
Lower(s) == [i \in 1..Len(s) |-> LowerChar(s[i])]

\* str.strip() and str.replace(" ", "") on a string of characters
RECURSIVE LStrip(_)
LStrip(s) == IF s # <<>> /\ Head(s) = " " THEN LStrip(Tail(s)) ELSE s
RECURSIVE RStrip(_)
RStrip(s) == IF s # <<>> /\ s[Len(s)] = " " THEN RStrip(SubSeq(s, 1, Len(s) - 1)) ELSE s
Strip(s) == RStrip(LStrip(s))
\* replace(" ", "") left out
KeepBlanks(s) == s
RemoveBlanks(s) == SelectSeq(s, LAMBDA c : c # " ")

\* A string that is transformed character by character is a sequence of characters
type_mapping ==
    {<<<<"A","B","R","O","G","A","T","D","E">>,
       <<"r","e","p","e","a","l","e","d">>>>,
     <<<<"A","B","R","O","G","A","T","P","A","R","T","I","A","L","D","E">>,
       <<"p","a","r","t","i","a","l","l","y"," ","r","e","p","e","a","l","e","d">>>>,
     <<<<"M","O","D","I","F","I","C","A","T","D","E">>,
       <<"a","m","e","n","d","e","d">>>>,
     <<<<"C","O","M","P","L","E","T","A","T","D","E">>,
       <<"s","u","p","p","l","e","m","e","n","t","e","d">>>>,
     <<<<"S","U","S","P","E","N","D","A","T","D","E">>,
       <<"s","u","s","p","e","n","d","e","d">>>>,
     <<<<"R","E","P","U","B","L","I","C","A","T">>,
       <<"r","e","p","u","b","l","i","s","h","e","d">>>>,
     <<<<"I","N","T","R","A","T","I","N","V","I","G","O","A","R","E">>,
       <<"e","n","t","e","r","e","d"," ","i","n","t","o"," ","f","o","r","c","e">>>>,
     <<<<"R","E","C","T","I","F","I","C","A","T","D","E">>,
       <<"c","o","r","r","e","c","t","e","d">>>>}

Repealed == <<"r","e","p","e","a","l","e","d">>

\* The category of a raw operation type; an unmapped one comes back lowercased
_normalize_amendment_type(raw_type) ==
    LET raw_upper == RemoveBlanks(Strip(Upper(raw_type))) IN
    IF \E m \in type_mapping : m[1] = raw_upper
    THEN (CHOOSE m \in type_mapping : m[1] = raw_upper)[2]
    ELSE Lower(raw_type)

\* row.split()[0] == "ART.": an IndexError for a row without words
_is_article(target) ==
    IF target = <<>> THEN Raise
    ELSE IF target[1] = "ART." THEN Accept ELSE Reject

\* row.split()[1], None if there is none
_try_get_article_number(target) ==
    IF Len(target) >= 2 THEN target[2] ELSE None

\* The amendment a table row yields: kind "skip" (no amendment), "raise" or
\* "amendment"
ParseRow(row) ==
    LET target_str == row.target
        top_type == IF target_str = <<"Actul">> THEN PartType("TOP") ELSE NoType
        is_art == _is_article(row.target)
        article_no == _try_get_article_number(row.target)
        target_type == IF is_art = Accept /\ article_no # None
                       THEN PartType("ARTICLE") ELSE top_type
        target_no == IF is_art = Accept /\ article_no # None THEN article_no ELSE None
        amendment_type == _normalize_amendment_type(row.raw_type)
    IN  IF row.cells # 3 THEN [kind |-> "skip"]
        ELSE IF target_str \in {<<"SECTIUNE", "ACT">>, <<"TIP", "OPERATIUNE">>}
             THEN [kind |-> "skip"]
        ELSE IF is_art = Raise THEN [kind |-> "raise"]
        ELSE IF target_type # NoType /\ amendment_type # <<>> /\ row.source # ""
             THEN [kind |-> "amendment",
                   amendment_type |-> amendment_type,
                   target_element_type |-> target_type,
                   target_element_no |-> target_no,
                   source_str |-> row.source]
        ELSE [kind |-> "skip"]

RECURSIVE ParseRows(_)
ParseRows(rows) ==
    IF rows = <<>> THEN <<>>
    ELSE LET a == ParseRow(Head(rows)) IN
         IF a.kind = "amendment" THEN <<a>> \o ParseRows(Tail(rows))
         ELSE ParseRows(Tail(rows))

\* An exception anywhere in the loop is caught and [] returned
_parse_amendments_from_html(rows) ==
    IF \E i \in 1..Len(rows) : ParseRow(rows[i]).kind = "raise"
    THEN <<>>
    ELSE ParseRows(rows)

IsRepealed(amendments) ==
    \E i \in 1..Len(amendments) :
        /\ Lower(amendments[i].amendment_type) = Repealed
        /\ amendments[i].target_element_type = PartType("TOP")

\* What the endpoint answers: the request fails ("network_error"), the status
\* is an error ("http_error"), the body is no JSON ("json_error"), the JSON has
\* no "acte" field ("no_acte"), its content cannot be decoded ("decode_error")
\* or it holds a table of rows ("ok")
_parse_amendments(resp) ==
    IF resp.outcome \in {"network_error", "http_error", "json_error", "decode_error"}
    THEN EmptyDict
    ELSE IF resp.outcome = "no_acte"
    THEN NoValue
    ELSE LET amendments == _parse_amendments_from_html(resp.rows) IN
         AmendmentData(amendments, IsRepealed(amendments))

get_amendment_data(u, resp) ==
    IF u = None \/ u = "" THEN EmptyDict ELSE _parse_amendments(resp)

\* create_structured_document after _find_elements returned
CreateStructuredDocumentFinish ==
    /\ status = "structured"
    /\ amendment_data' = IF url # None /\ url # ""
                         THEN get_amendment_data(url, response)
                         ELSE amendment_data
    /\ status' = "done"
    /\ UNCHANGED <<built_documents, calls, text, url, response, nodes, articles, elements,
                   last_valid_article_no, stack, art_amendment_map, result>>

----------------------------------------------------------------------------
(* StructuredDocument queries (structured_document/structured_document.py) *)

Raised == [kind |-> "raise"]

\* AmendmentData.has_amendments (document_amendments/amendment.py)
has_amendments(data) == Len(data.amendments) > 0

\* Whether a value has a has_amendments method: the AmendmentData of
\* amendment_parser.py, which the parser returns and structured_document.py
\* imports, defines none; only the class of amendment.py does
HasAmendmentsMethod(data) == data.kind = "amendment.AmendmentData"

\* The amendments whose target the loop of _get_amendments_for_article keeps
ArticleMatches(amendments, number) ==
    SelectSeq(amendments,
              LAMBDA a : /\ a.target_element_type = Str(JoinWords(to_keyword(ARTICLE)))
                         /\ a.target_element_no = number)

\* [raised, amendments, map]: the amendments returned for an article number
\* and art_amendment_map after the call
_get_amendments_for_article(number, data, map) ==
    IF number \in DOMAIN map
    THEN [raised |-> FALSE, amendments |-> map[number], map |-> map]
    ELSE IF data = NoValue
    THEN [raised |-> FALSE, amendments |-> <<>>, map |-> map]
    ELSE IF ~HasAmendmentsMethod(data)           \* AttributeError
    THEN [raised |-> TRUE, amendments |-> <<>>, map |-> map]
    ELSE IF ~has_amendments(data)
    THEN [raised |-> FALSE, amendments |-> <<>>, map |-> map]
    ELSE LET found == ArticleMatches(data.amendments, number) IN
         IF found = <<>>
         THEN [raised |-> FALSE, amendments |-> <<>>, map |-> map]
         ELSE [raised |-> FALSE, amendments |-> found, map |-> (number :> found) @@ map]

\* _get_article: kind "None", "raise" or "ResultElement", and the map after it
_get_article(art_no, data, map) ==
    IF art_no \notin DOMAIN articles
    THEN [value |-> NoValue, map |-> map]
    ELSE LET article == nodes[articles[art_no]]
             am == _get_amendments_for_article(article.number, data, map)
         IN  IF am.raised THEN [value |-> Raised, map |-> map]
             ELSE [value |-> [kind |-> "ResultElement",
                              number |-> article.number,
                              title |-> article.title,
                              content |-> Slice(text, article.start_pos, article.end_pos),
                              start_pos |-> article.start_pos,
                              end_pos |-> article.end_pos,
                              amendments |-> am.amendments],
                   map |-> am.map]

\* The loop of get_articles over the numbers asked for
RECURSIVE GetArticlesLoop(_, _, _, _)
GetArticlesLoop(art_nos, data, map, results) ==
    IF art_nos = <<>> THEN [raised |-> FALSE, results |-> results, map |-> map]
    ELSE LET r == _get_article(Head(art_nos), data, map) IN
         IF r.value = Raised THEN [raised |-> TRUE, results |-> results, map |-> r.map]
         ELSE GetArticlesLoop(Tail(art_nos), data, r.map,
                 Append(results,
                        IF r.value = NoValue
                        THEN [kind |-> "error", number |-> Head(art_nos)]
                        ELSE r.value))

get_articles(art_nos) == GetArticlesLoop(art_nos, amendment_data, art_amendment_map, <<>>)

\* get_general_amendment_data: kind "raise" when amendment_data has no amendments
get_general_amendment_data(data) ==
    IF data.kind \notin {"AmendmentData", "amendment.AmendmentData"} THEN Raised
    ELSE AmendmentData(
            SelectSeq(data.amendments,
                      LAMBDA a : a.target_element_type # ElementType("ARTICLE")),
            data.is_document_repealed)

\* The article numbers a caller asks for
QueryNumbers == {"5", "7", "9"}

\* The longest list of article numbers of one request
MaxAsked == 2

\* The lists of article numbers of a request (a single number is a list of one)
QueryLists == UNION {[1..n -> QueryNumbers] : n \in 1..MaxAsked}

GetArticles ==
    /\ status = "done"
    /\ \E art_nos \in QueryLists :
          LET r == get_articles(art_nos) IN
          /\ result' = [kind |-> "articles", asked |-> art_nos,
                        raised |-> r.raised, results |-> r.results]
          /\ art_amendment_map' = r.map
    /\ UNCHANGED <<built_documents, calls, text, url, response, nodes, articles, elements,
                   last_valid_article_no, stack, amendment_data, status>>

GetGeneralAmendmentData ==
    /\ status = "done"
    /\ result' = [kind |-> "general", data |-> get_general_amendment_data(amendment_data)]
    /\ UNCHANGED <<built_documents, calls, text, url, response, nodes, articles, elements,
                   last_valid_article_no, stack, amendment_data, art_amendment_map,
                   status>>

----------------------------------------------------------------------------
(* Search in an element: content_search.py and structured_document.py *)

\* s[a:b] of Python for any integers a and b: a negative index counts from
\* the end
PyIndex(s, a) ==
    IF a < 0 THEN (IF Len(s) + a < 0 THEN 0 ELSE Len(s) + a) ELSE Min(a, Len(s))

PySlice(s, a, b) == SubSeq(s, PyIndex(s, a) + 1, PyIndex(s, b))

\* StructuredDocument.get_text
get_text(start_pos, end_pos) == PySlice(text, start_pos, end_pos)

\* query_pattern.finditer for a query of one word: the offsets, ascending,
\* of the words of txt the pattern matches
FindIter(txt, search_query) ==
    SelectSeq([i \in 1..Len(txt) |-> i - 1], LAMBDA i : txt[i + 1] = search_query)

\* The excerpt text_search builds for the match at offset m of length 1
Excerpt(txt, i, m, excerpt_context_chars) ==
    LET start_pos == IF m - excerpt_context_chars < 0 THEN 0
                     ELSE m - excerpt_context_chars
        end_pos == Min(Len(txt), m + 1 + excerpt_context_chars)
    IN  [excerpt_number |-> i,
         text |-> PySlice(txt, start_pos, end_pos),
         match_start_in_excerpt |-> m - start_pos,
         match_end_in_excerpt |-> m + 1 - start_pos,
         position_in_document |-> m,
         match_length |-> 1]

TextSearchResult(txt, search_query, matches, shown, max_excerpts, excerpt_context_chars) ==
    IF matches = <<>>
    THEN [excerpts |-> <<>>, total_matches |-> 0, search_query |-> search_query]
    ELSE [excerpts |-> [i \in 1..Len(shown) |->
                           Excerpt(txt, i, shown[i], excerpt_context_chars)],
          total_matches |-> Len(matches),
          search_query |-> search_query,
          showing_excerpts |-> Min(Len(matches), max_excerpts),
          excerpt_context_chars |-> excerpt_context_chars]

text_search(txt, search_query, max_excerpts, excerpt_context_chars) ==
    TextSearchResult(txt, search_query, FindIter(txt, search_query),
                     PySlice(FindIter(txt, search_query), 0, max_excerpts),
                     max_excerpts, excerpt_context_chars)

\* [raised, amendments, map] of _get_amendments_for_art_children: called
\* with an article it hands its number, a string, to
\* _get_amendments_for_article, which reads the attribute number of it
RECURSIVE _get_amendments_for_art_children(_, _, _)
RECURSIVE ArtChildrenLoop(_, _, _, _)
ArtChildrenLoop(children, data, map, amendments) ==
    IF children = <<>>
    THEN [raised |-> FALSE, amendments |-> amendments, map |-> map]
    ELSE LET r == IF nodes[Head(children)].type_name = ARTICLE
                  THEN _get_amendments_for_article(nodes[Head(children)].number,
                                                   data, map)
                  ELSE _get_amendments_for_art_children(Head(children), data, map)
         IN  IF r.raised
             THEN [raised |-> TRUE, amendments |-> amendments, map |-> r.map]
             ELSE ArtChildrenLoop(Tail(children), data, r.map,
                                  amendments \o r.amendments)

_get_amendments_for_art_children(id, data, map) ==
    IF nodes[id].type_name = ARTICLE
    THEN [raised |-> TRUE, amendments |-> <<>>, map |-> map]
    ELSE ArtChildrenLoop(Children(nodes, id), data, map, <<>>)

\* The result of search_in_element once the element text was searched: the
\* loop over the excerpts reads the key "match_start_in_text", which no
\* excerpt of text_search has
SearchResult(id, excerpts, include_article_changes, data, map) ==
    IF excerpts.excerpts # <<>>
    THEN [value |-> Raised, map |-> map]
    ELSE IF ~include_article_changes
    THEN [value |-> [kind |-> "search", element_id |-> id, excerpt_data |-> excerpts],
          map |-> map]
    ELSE LET am == _get_amendments_for_art_children(id, data, map) IN
         IF am.raised THEN [value |-> Raised, map |-> am.map]
         ELSE [value |-> [kind |-> "search", element_id |-> id,
                          excerpt_data |-> excerpts,
                          article_amendments |-> am.amendments],
               map |-> am.map]

\* search_in_element: the value returned and art_amendment_map after it
search_in_element(id, query, start_pos, end_pos, max_excerpts, context, changes, data, map) ==
    IF id \notin elements
    THEN [value |-> [kind |-> "error", id |-> id], map |-> map]
    ELSE SearchResult(id,
            text_search(PySlice(get_text(nodes[id].start_pos, nodes[id].end_pos),
                                start_pos, end_pos),
                        query, max_excerpts, context),
            changes, data, map)

\* The defaults of the tool search_in_element
DEFAULT_MAX_EXCERPTS == 5
DEFAULT_CONTEXT_CHARS == 250

\* The words a caller searches for
SearchQueries == {"5", "I", "lipsa"}

\* The starts of the range a caller searches; the end is the default, -1
SearchStarts == {0, 1}

\* The tool search_in_element of document_flow.py, for the id of a node of
\* the tree or an id of no node
SearchInElement ==
    /\ status = "done"
    /\ \E id \in 1..(Len(nodes) + 1), query \in SearchQueries,
          start_pos \in SearchStarts :
          LET r == search_in_element(id, query, start_pos, -1,
                                     DEFAULT_MAX_EXCERPTS,
                                     DEFAULT_CONTEXT_CHARS, TRUE,
                                     amendment_data, art_amendment_map) IN
          /\ result' = [kind |-> "search", id |-> id, query |-> query,
                        start_pos |-> start_pos, value |-> r.value]
          /\ art_amendment_map' = r.map
    /\ UNCHANGED <<built_documents, calls, text, url, response, nodes, articles, elements,
                   last_valid_article_no, stack, amendment_data, status>>

----------------------------------------------------------------------------
(* StructuredDocumentService (structured_document/service.py)              *)
(* A call of get_document is a coroutine of the event loop: it runs        *)
(* without a break from one await that suspends it to the next, and the    *)
(* build it starts is synchronous.                                         *)

\* Whether a cache entry is the one of an identity: the four fields are
\* compared as given
SameIdentity(document_data, identity) ==
    /\ document_data.type = identity.document_type
    /\ document_data.number = identity.number
    /\ document_data.year = identity.year
    /\ document_data.issuer = identity.issuer

\* _get_from_cache: the document of the first entry of the identity
_get_from_cache(cache, identity) ==
    LET hits == {i \in DOMAIN cache : SameIdentity(cache[i], identity)}
    IN  IF hits = {} THEN NoValue
        ELSE cache[CHOOSE i \in hits : \A j \in hits : i <= j].document

SearchRawSuspendsAlways == TRUE

\* Whether the await of document_finder.get_document hands control to the
\* event loop: it ends in SoapClient.search_raw, an async def whose body
\* awaits nothing and runs the blocking search
SearchRawSuspends == FALSE

\* Another call holds the event loop: it is building, or its await does
\* not suspend it
Blocked(c) ==
    \E d \in DOMAIN calls :
       /\ d # c
       /\ \/ calls[d].pc = "building"
          \/ calls[d].pc = "fetching" /\ ~SearchRawSuspends

TextParserSharedValidator(last) == last

\* The article state the TextParser of a new builder starts from, last being
\* the state the previous builder left: a Validator of its own
TextParser_validator(last) == None

\* The StructuredDocument the builder of the running call has built
BuiltDocument ==
    [kind |-> "StructuredDocument", text |-> text, nodes |-> nodes,
     articles |-> articles, elements |-> elements,
     amendment_data |-> amendment_data]

\* The texts of the documents the finder finds
ServiceTexts ==
    {<<"Articolul", "5">>, <<"Articolul", "3">>,
     <<"Titlul", "I", NL, "Articolul", "5">>}

\* What document_finder.get_document can return: None or a document
FinderResults ==
    {[found |-> FALSE, text |-> <<>>]}
    \cup {[found |-> TRUE, text |-> t] : t \in ServiceTexts}

\* get_document up to the await of _build_document: the cache is looked up,
\* a hit is returned
GetDocument(c) ==
    /\ calls[c].pc = "pending"
    /\ ~Blocked(c)
    /\ LET document == _get_from_cache(built_documents, calls[c].identity) IN
       calls' = [calls EXCEPT ![c] =
                    IF document # NoValue
                    THEN [@ EXCEPT !.pc = "done", !.document = document]
                    ELSE [@ EXCEPT !.pc = "fetching"]]
    /\ UNCHANGED <<built_documents, text, url, response, nodes, articles, elements,
                   last_valid_article_no, stack, amendment_data, art_amendment_map,
                   status, result>>

\* _build_document once the finder has answered: None is returned, or a new
\* builder is made for the document (StructuredDocumentBuilder.__init__)
\* and create_structured_document starts
BuildDocument(c) ==
    /\ calls[c].pc = "fetching"
    /\ ~Blocked(c)
    /\ \E base_document \in FinderResults :
          IF ~base_document.found
          THEN /\ calls' = [calls EXCEPT ![c].pc = "done"]
               /\ UNCHANGED <<text, nodes, articles, elements, last_valid_article_no,
                              stack, amendment_data, art_amendment_map, status>>
          ELSE /\ calls' = [calls EXCEPT ![c].pc = "building"]
               /\ text' = base_document.text
               /\ nodes' = <<DocumentElement(TOP, "0", <<>>, 0,
                                             Len(base_document.text), 0)>>
               /\ articles' = <<>>
               /\ elements' = {1}
               /\ last_valid_article_no' = TextParser_validator(last_valid_article_no)
               /\ stack' = <<Frame(1, TOP)>>
               /\ amendment_data' = NoValue
               /\ art_amendment_map' = <<>>
               /\ status' = "building"
    /\ UNCHANGED <<built_documents, url, response, result>>

\* _build_document after create_structured_document: the document is
\* appended to the cache and returned; an exception of the build goes to
\* the caller
BuildDocumentReturn(c) ==
    /\ calls[c].pc = "building"
    /\ status \in {"done", "raised"}
    /\ IF status = "done"
       THEN /\ built_documents' =
                  Append(built_documents,
                         [type |-> calls[c].identity.document_type,
                          number |-> calls[c].identity.number,
                          year |-> calls[c].identity.year,
                          issuer |-> calls[c].identity.issuer,
                          document |-> BuiltDocument])
            /\ calls' = [calls EXCEPT ![c] =
                            [@ EXCEPT !.pc = "done", !.document = BuiltDocument,
                                      !.built = TRUE]]
       ELSE /\ calls' = [calls EXCEPT ![c].pc = "raised"]
            /\ UNCHANGED built_documents
    /\ status' = "idle"
    /\ UNCHANGED <<text, url, response, nodes, articles, elements,
                   last_valid_article_no, stack, amendment_data, art_amendment_map,
                   result>>

----------------------------------------------------------------------------
(* Fuzzy search (api_client/utils.py and content_search.py): here a text is *)
(* a sequence of characters, each character a string that names it:        *)
(* "a_breve" is a with breve, "t_comma" is t with comma below, "t_cedilla"  *)
(* is t with cedilla, " " is the blank                                      *)

RomanianLower == <<"a", "a_breve", "a_circ", "i", "i_circ", "t", "t_comma",
                   "t_cedilla", "s", "s_comma", "s_cedilla", "n">>
RomanianUpper == <<"A", "A_breve", "A_circ", "I", "I_circ", "T", "T_comma",
                   "T_cedilla", "S", "S_comma", "S_cedilla", "N">>

\* The same letter in the other case; a character without case is itself
SwapCase(c) ==
    IF \E i \in DOMAIN RomanianLower : RomanianLower[i] = c
    THEN RomanianUpper[CHOOSE i \in DOMAIN RomanianLower : RomanianLower[i] = c]
    ELSE IF \E i \in DOMAIN RomanianUpper : RomanianUpper[i] = c
    THEN RomanianLower[CHOOSE i \in DOMAIN RomanianUpper : RomanianUpper[i] = c]
    ELSE c

\* The character classes that are the values of char_variations
CharClasses ==
    {{"a", "a_breve", "a_circ"}, {"A", "A_breve", "A_circ"},
     {"i", "i_circ"}, {"I", "I_circ"},
     {"t", "t_comma", "t_cedilla"}, {"T", "T_comma", "T_cedilla"},
     {"s", "s_comma", "s_cedilla"}, {"S", "S_comma", "S_cedilla"}}

\* char_variations without the diacritics: every character stands for itself
NoVariations(char) == {}

\* char_variations.get(char): each key is mapped to the class it is in; the
\* empty set stands for no entry
char_variations(char) ==
    IF \E class \in CharClasses : char \in class
    THEN CHOOSE class \in CharClasses : char \in class
    ELSE {}

\* What a character of the query becomes in the pattern, as the set of the
\* characters it stands for: its class, or re.escape(char)
PatternPart(char) ==
    IF char_variations(char) # {} THEN char_variations(char) ELSE {char}

WordPattern(word) == [i \in 1..Len(word) |-> PatternPart(word[i])]

\* str.split(): the words between the blanks, from place i on
RECURSIVE SplitFrom(_, _, _)
SplitFrom(s, i, word) ==
    IF i > Len(s) THEN (IF word = <<>> THEN <<>> ELSE <<word>>)
    ELSE IF s[i] = " "
    THEN (IF word = <<>> THEN <<>> ELSE <<word>>) \o SplitFrom(s, i + 1, <<>>)
    ELSE SplitFrom(s, i + 1, Append(word, s[i]))

\* The {0,50} of flexible_separator
MAX_WORDS_BETWEEN == 50

\* The pattern as the sequence of the patterns of its words; between two of
\* them stands flexible_separator. The empty sequence is the empty pattern:
\* of the empty query, and of a query of blanks with allow_partial_words
create_fuzzy_romanian_pattern(query, allow_partial_words) ==
    IF query = <<>> THEN <<>>
    ELSE IF allow_partial_words
    THEN [k \in 1..Len(SplitFrom(query, 1, <<>>)) |->
             WordPattern(SplitFrom(query, 1, <<>>)[k])]
    ELSE <<WordPattern(query)>>

\* re.IGNORECASE: a part of the pattern matches a character in either case
CharMatches(part, c) == c \in part \/ SwapCase(c) \in part

\* The pattern of a word matches at offset pos
WordMatchesAt(word_pattern, txt, pos) ==
    /\ pos + Len(word_pattern) <= Len(txt)
    /\ \A k \in 1..Len(word_pattern) : CharMatches(word_pattern[k], txt[pos + k])

\* The offset of the first character from pos on that is no blank (that is a
\* blank, for blank = FALSE), Len(txt) if there is none
RECURSIVE Skip(_, _, _)
Skip(txt, pos, blank) ==
    IF pos >= Len(txt) \/ ((txt[pos + 1] = " ") # blank) THEN pos
    ELSE Skip(txt, pos + 1, blank)

\* The end of the match of the words k.. of the pattern at offset pos, -1
\* if there is none. r"(?:\s+\S+){0,50}?\s+" between two words is lazy: the
\* blanks, then as few whole words, each with the blanks after it, as lets
\* the rest of the pattern match
RECURSIVE MatchFrom(_, _, _, _)
RECURSIVE SeparatorFrom(_, _, _, _, _)
SeparatorFrom(pattern, k, txt, pos, n) ==
    IF pos >= Len(txt) \/ txt[pos + 1] # " " THEN -1
    ELSE IF MatchFrom(pattern, k, txt, Skip(txt, pos, TRUE)) # -1
    THEN MatchFrom(pattern, k, txt, Skip(txt, pos, TRUE))
    ELSE IF n = MAX_WORDS_BETWEEN \/ Skip(txt, pos, TRUE) >= Len(txt) THEN -1
    ELSE SeparatorFrom(pattern, k, txt,
                       Skip(txt, Skip(txt, pos, TRUE), FALSE), n + 1)

MatchFrom(pattern, k, txt, pos) ==
    IF ~WordMatchesAt(pattern[k], txt, pos) THEN -1
    ELSE IF k = Len(pattern) THEN pos + Len(pattern[k])
    ELSE SeparatorFrom(pattern, k + 1, txt, pos + Len(pattern[k]), 0)

\* query_pattern.finditer(search_text) from offset pos on: the matches from
\* left to right, none overlapping another; the empty pattern matches the
\* empty string at every offset
RECURSIVE finditer(_, _, _)
finditer(pattern, txt, pos) ==
    IF pos > Len(txt) THEN <<>>
    ELSE IF pattern = <<>>
    THEN <<[start |-> pos, end |-> pos]>> \o finditer(pattern, txt, pos + 1)
    ELSE IF MatchFrom(pattern, 1, txt, pos) = -1
    THEN finditer(pattern, txt, pos + 1)
    ELSE <<[start |-> pos, end |-> MatchFrom(pattern, 1, txt, pos)]>>
         \o finditer(pattern, txt, MatchFrom(pattern, 1, txt, pos))

\* The excerpt with a window that is not clamped to the start of the text
MatchExcerptUnclamped(txt, i, match, excerpt_context_chars) ==
    LET start_pos == match.start - excerpt_context_chars
        end_pos == Min(Len(txt), match.end + excerpt_context_chars)
    IN  [excerpt_number |-> i,
         text |-> PySlice(txt, start_pos, end_pos),
         match_start_in_excerpt |-> match.start - start_pos,
         match_end_in_excerpt |-> match.end - start_pos,
         position_in_document |-> match.start,
         match_length |-> match.end - match.start]

\* The excerpt text_search builds for a match
MatchExcerpt(txt, i, match, excerpt_context_chars) ==
    LET start_pos == IF match.start - excerpt_context_chars < 0 THEN 0
                     ELSE match.start - excerpt_context_chars
        end_pos == Min(Len(txt), match.end + excerpt_context_chars)
    IN  [excerpt_number |-> i,
         text |-> PySlice(txt, start_pos, end_pos),
         match_start_in_excerpt |-> match.start - start_pos,
         match_end_in_excerpt |-> match.end - start_pos,
         position_in_document |-> match.start,
         match_length |-> match.end - match.start]

FuzzySearchResult(txt, search_query, matches, max_excerpts, excerpt_context_chars) ==
    IF matches = <<>>
    THEN [excerpts |-> <<>>, total_matches |-> 0, search_query |-> search_query]
    ELSE [excerpts |-> [i \in 1..Len(PySlice(matches, 0, max_excerpts)) |->
                           MatchExcerpt(txt, i, matches[i], excerpt_context_chars)],
          total_matches |-> Len(matches),
          search_query |-> search_query,
          showing_excerpts |-> Min(Len(matches), max_excerpts),
          excerpt_context_chars |-> excerpt_context_chars]

\* text_search for a text and a query given character by character
fuzzy_text_search(txt, search_query, max_excerpts, excerpt_context_chars) ==
    FuzzySearchResult(txt, search_query,
                      finditer(create_fuzzy_romanian_pattern(search_query, TRUE),
                               txt, 0),
                      max_excerpts, excerpt_context_chars)

\* text_search is called with a text, a query, the number of excerpts and
\* the size of the context
TextSearch ==
    /\ status = "searching"
    /\ result.kind = "query"
    /\ result' = [kind |-> "found", input |-> result.input,
                  value |-> fuzzy_text_search(result.input.text,
                                              result.input.search_query,
                                              result.input.max_excerpts,
                                              result.input.excerpt_context_chars)]
    /\ UNCHANGED <<built_documents, calls, text, url, response, nodes, articles,
                   elements, last_valid_article_no, stack, amendment_data,
                   art_amendment_map, status>>

----------------------------------------------------------------------------
(* The structure view (structured_document.py)                             *)
(* A string the code builds from numbers is the sequence of its characters *)

Digits == <<"0", "1", "2", "3", "4", "5", "6", "7", "8", "9">>

\* str(n) for n >= 0
RECURSIVE PyStr(_)
PyStr(n) ==
    IF n < 10 THEN <<Digits[n + 1]>>
    ELSE PyStr(n \div 10) \o <<Digits[(n % 10) + 1]>>

\* sep.join(strs)
RECURSIVE Join(_, _)
Join(sep, strs) ==
    IF strs = <<>> THEN <<>>
    ELSE IF Len(strs) = 1 THEN strs[1]
    ELSE strs[1] \o sep \o Join(sep, Tail(strs))

\* str(start) if start == end, f"{start}-{end}" otherwise
RangeStr(start, end) ==
    IF start = end THEN PyStr(start) ELSE PyStr(start) \o <<"-">> \o PyStr(end)

RECURSIVE FormatRangeLoopNoRuns(_, _, _, _, _)
FormatRangeLoopNoRuns(numbers, i, start, end, ranges) ==
    IF i > Len(numbers) THEN Append(ranges, RangeStr(start, start))
    ELSE FormatRangeLoopNoRuns(numbers, i + 1, numbers[i], numbers[i],
                               Append(ranges, RangeStr(start, start)))

\* The loop of _format_numeric_range from index i on and the append after
\* it: ranges when the loop is over
RECURSIVE FormatRangeLoop(_, _, _, _, _)
FormatRangeLoop(numbers, i, start, end, ranges) ==
    IF i > Len(numbers) THEN Append(ranges, RangeStr(start, end))
    ELSE IF numbers[i] = end + 1
    THEN FormatRangeLoop(numbers, i + 1, start, numbers[i], ranges)
    ELSE FormatRangeLoop(numbers, i + 1, numbers[i], numbers[i],
                         Append(ranges, RangeStr(start, end)))

_format_numeric_range(numbers) ==
    IF numbers = <<>> THEN <<>>
    ELSE Join(<<",", " ">>, FormatRangeLoop(numbers, 2, numbers[1], numbers[1], <<>>))

\* _format_numeric_range is called with a list of numbers
FormatNumericRange ==
    /\ status = "formatting"
    /\ result.kind = "numbers"
    /\ result' = [kind |-> "range", numbers |-> result.numbers,
                  value |-> _format_numeric_range(result.numbers)]
    /\ UNCHANGED <<built_documents, calls, text, url, response, nodes, articles,
                   elements, last_valid_article_no, stack, amendment_data,
                   art_amendment_map, status>>

\* element.type_name.name.lower()
TypeName(t) ==
    CASE t = TOP -> "top"
      [] t = PART -> "part"
      [] t = BOOK -> "book"
      [] t = TITLE -> "title"
      [] t = CHAPTER -> "chapter"
      [] t = SECTION -> "section"
      [] t = ARTICLE -> "article"

\* The children of an element that are articles, and those that are not
article_children(id) ==
    SelectSeq(Children(nodes, id), LAMBDA c : nodes[c].type_name = ARTICLE)

non_article_children(id) ==
    SelectSeq(Children(nodes, id), LAMBDA c : nodes[c].type_name # ARTICLE)

\* The numbers of the article children that are digits, sorted, and the others
numeric_articles(id) ==
    SortSeq([k \in 1..Len(SelectSeq(article_children(id),
                                    LAMBDA c : IsInt(nodes[c].number))) |->
                IntOf(nodes[SelectSeq(article_children(id),
                                      LAMBDA c : IsInt(nodes[c].number))[k]].number)],
            LAMBDA a, b : a < b)

other_articles(id) ==
    [k \in 1..Len(SelectSeq(article_children(id),
                            LAMBDA c : ~IsInt(nodes[c].number))) |->
        nodes[SelectSeq(article_children(id),
                        LAMBDA c : ~IsInt(nodes[c].number))[k]].number]

\* One optional key of a dict
Key(present, key, value) == IF present THEN key :> value ELSE <<>>

\* The keys _build_element_structure gives the structure of an element
\* before its children
StructureHead(id) ==
    Key(other_articles(id) # <<>>, "other_articles", other_articles(id))
    @@ Key(numeric_articles(id) # <<>>, "article_range",
           _format_numeric_range(numeric_articles(id)))
    @@ [type |-> TypeName(nodes[id].type_name), number |-> nodes[id].number,
        title |-> nodes[id].title, id |-> id]

RECURSIVE ElementStructureUnbounded(_, _, _)
ElementStructureUnbounded(id, curr_depth, max_depth) ==
    Key(non_article_children(id) # <<>>, "children",
        [k \in 1..Len(non_article_children(id)) |->
            ElementStructureUnbounded(non_article_children(id)[k], curr_depth + 1,
                                      max_depth)])
    @@ StructureHead(id)

\* The structure of an element at depth curr_depth of a view of max_depth
\* levels: the non-article children are included while curr_depth < max_depth
RECURSIVE ElementStructure(_, _, _)
ElementStructure(id, curr_depth, max_depth) ==
    Key(non_article_children(id) # <<>> /\ curr_depth < max_depth, "children",
        [k \in 1..Len(non_article_children(id)) |->
            ElementStructure(non_article_children(id)[k], curr_depth + 1, max_depth)])
    @@ StructureHead(id)

\* StructuredDocument.get_element_structure: None for an unknown id
get_element_structure(id, max_depth) ==
    IF id \notin elements THEN NoValue ELSE ElementStructure(id, 0, max_depth)

\* What the tool returns for the element structure it was given
StructureOrError(element_id, element) ==
    IF element = NoValue THEN [kind |-> "error", id |-> element_id] ELSE element

\* The deepest view a caller asks for
MaxViewDepth == 2

\* The tool get_element_structure_by_id of document_flow.py, for the id of a
\* node of the tree or an id of no node
GetElementStructureById ==
    /\ status = "done"
    /\ \E id \in 1..(Len(nodes) + 1), max_depth \in 0..MaxViewDepth :
          result' = [kind |-> "structure", id |-> id, max_depth |-> max_depth,
                     value |-> StructureOrError(id, get_element_structure(id, max_depth))]
    /\ UNCHANGED <<built_documents, calls, text, url, response, nodes, articles,
                   elements, last_valid_article_no, stack, amendment_data,
                   art_amendment_map, status>>

----------------------------------------------------------------------------
(* The header search on its own *)

\* _find_next_valid_header is called with the text and an element type, the
\* validator being in the state last_valid_article_no
FindNextValidHeader ==
    /\ status = "searching_header"
    /\ result.kind = "header_query"
    /\ result' = [kind |-> "header", element_type |-> result.element_type,
                  value |-> _find_next_valid_header(text, result.element_type,
                                                    last_valid_article_no)]
    /\ UNCHANGED <<built_documents, calls, text, url, response, nodes, articles,
                   elements, last_valid_article_no, stack, amendment_data,
                   art_amendment_map, status>>

----------------------------------------------------------------------------
(* Specifications *)

\* The lines the documents of Spec are made of: headers of the levels of
\* the hierarchy, article headers and plain text
Lines ==
    {<<"Cartea", "I">>, <<"Titlul", "I">>, <<"Capitolul", "I">>,
     <<"Articolul", "3">>, <<"Articolul", "5">>, <<"x">>}

\* Documents of article headers in and out of sequence, in both numbering
\* systems, alone on their line and followed by words as in a cross-reference
ArticleLines ==
    {<<"Articolul", "5">>, <<"Articolul", "3">>, <<"Articolul", "3", "x">>,
     <<"Articolul", "III">>, <<"Titlul", "I">>, <<"x">>}

\* Documents of truncated headers, of headers quoted in amendment prose and
\* of the header of a single unnumbered article
HeaderLines ==
    {<<"urmatorul", "cuprins:">>, <<"Capitolul", "I">>, <<"Sectiunea", "a">>,
     <<"Sectiunea", "1">>, <<"Titlul">>, <<"Articolul", "5">>, <<"ARTICOL", "UNIC">>}

NoResponse == [outcome |-> "network_error", rows |-> <<>>]

Build ==
    \/ BuildElementStructureStep
    \/ BuildElementStructureEnd
    \/ FindElementsRecursiveCall
    \/ FindElementsRecursiveReturn
    \/ CreateStructuredDocumentFinish

Init == BuilderInit(TextsOf(Lines), {None}, {NoResponse})

Next == Build

Spec == Init /\ [][Next]_vars

InitArticles == BuilderInit(TextsOf(ArticleLines), {None}, {NoResponse})

SpecArticles == InitArticles /\ [][Next]_vars

InitHeaders == BuilderInit(TextsOf(HeaderLines), {None}, {NoResponse})

SpecHeaders == InitHeaders /\ [][Next]_vars

\* The article numbers the validators are asked about, in both numbering systems
ArticleNumbers == {"1", "2", "3", "5", "9", "10", "I", "II", "III", "V", "X"}

\* A validator whose last accepted article number is any of the numbers, or none
InitArticleNo ==
    /\ text = <<>>
    /\ url = None
    /\ response = NoResponse
    /\ nodes = <<>>
    /\ articles = <<>>
    /\ elements = {}
    /\ last_valid_article_no \in ArticleNumbers \cup {None}
    /\ stack = <<>>
    /\ amendment_data = NoValue
    /\ art_amendment_map = <<>>
    /\ status = "validating"
    /\ result = NoValue
    /\ built_documents = <<>>
    /\ calls = <<>>

\* Validator._is_valid_article_no is asked about a candidate number
ValidatorIsValidArticleNo ==
    /\ status = "validating"
    /\ \E curr \in ArticleNumbers :
          result' = [kind |-> "Validator", prev |-> last_valid_article_no,
                     curr |-> curr,
                     valid |-> _is_valid_article_no(last_valid_article_no, curr)]
    /\ UNCHANGED <<built_documents, calls, text, url, response, nodes, articles, elements,
                   last_valid_article_no, stack, amendment_data,
                   art_amendment_map, status>>

\* Extractor._is_valid_article_no is asked about a candidate number
ExtractorIsValidArticleNo ==
    /\ status = "validating"
    /\ \E art_no \in ArticleNumbers :
          result' = [kind |-> "Extractor", prev |-> last_valid_article_no,
                     curr |-> art_no,
                     valid |-> Extractor_is_valid_article_no(last_valid_article_no,
                                                             art_no)]
    /\ UNCHANGED <<built_documents, calls, text, url, response, nodes, articles, elements,
                   last_valid_article_no, stack, amendment_data,
                   art_amendment_map, status>>

NextArticleNo ==
    \/ ValidatorIsValidArticleNo
    \/ ExtractorIsValidArticleNo

SpecArticleNo == InitArticleNo /\ [][NextArticleNo]_vars

\* Documents of titles and articles, for the queries on amendments
AmendLines == {<<"Articolul", "5">>, <<"Titlul", "I">>}

\* The rows of the table of amendments: an amended article, the repealed
\* act, a supplemented article with its type in lower case, the header row,
\* a row of two cells and a row whose first cell is empty
Rows ==
    {[cells |-> 3, target |-> <<"ART.", "5">>,
      raw_type |-> <<"M","O","D","I","F","I","C","A","T"," ","D","E">>,
      source |-> "LEGE 1"],
     [cells |-> 3, target |-> <<"Actul">>,
      raw_type |-> <<"A","B","R","O","G","A","T"," ","D","E">>,
      source |-> "LEGE 2"],
     [cells |-> 3, target |-> <<"ART.", "7">>,
      raw_type |-> <<"c","o","m","p","l","e","t","a","t"," ","d","e">>,
      source |-> "LEGE 3"],
     [cells |-> 3, target |-> <<"SECTIUNE", "ACT">>,
      raw_type |-> <<"T","I","P">>, source |-> "ACT NORMATIV"],
     [cells |-> 2, target |-> <<"ART.", "5">>,
      raw_type |-> <<"M","O","D","I","F","I","C","A","T"," ","D","E">>,
      source |-> "LEGE 1"],
     [cells |-> 3, target |-> <<>>,
      raw_type |-> <<"M","O","D","I","F","I","C","A","T"," ","D","E">>,
      source |-> "LEGE 1"]}

\* What the endpoint of the amendments may answer
Responses ==
    {[outcome |-> o, rows |-> <<>>] :
        o \in {"network_error", "http_error", "json_error", "no_acte", "decode_error"}}
    \cup {[outcome |-> "ok", rows |-> rows] :
            rows \in UNION {[1..n -> Rows] : n \in 0..MaxRows}}

InitAmend == BuilderInit(TextsOf(AmendLines), {"", "https://legislatie.just.ro/1"},
                         Responses)

NextAmend ==
    \/ Build
    \/ GetArticles
    \/ GetGeneralAmendmentData
    \/ SearchInElement

SpecAmend == InitAmend /\ [][NextAmend]_vars

\* The service: calls of get_document, all of them made before the first
\* one runs, for documents of these identities
MaxCalls == 3

\* The canonical forms of document_cache.py and the mappings; the service
\* calls neither. s.strip().lower() with the diacritics replaced, for the
\* strings of the identities
Normalized(s) ==
    CASE s = "LEGE" -> "lege"
      [] s = "Parlamentul" -> "parlamentul"
      [] OTHER -> s

\* ISSUER_MAPPINGS has no entry for "parlamentul"
get_canonical_issuer(issuer) == Normalized(issuer)

\* SIMPLE_TYPE_MAPPINGS maps "lege" to itself; the only context-dependent
\* type is "hotarare"
get_canonical_document_type(doc_type, issuer_canonical) == Normalized(doc_type)

\* The identity DocumentCache._get_cache_key hashes
CanonicalIdentity(identity) ==
    <<get_canonical_document_type(identity.document_type,
                                  get_canonical_issuer(identity.issuer)),
      identity.number, identity.year, get_canonical_issuer(identity.issuer)>>

Identity(document_type, number, year, issuer) ==
    [document_type |-> document_type, number |-> number, year |-> year,
     issuer |-> issuer]

Identities ==
    {Identity("LEGE", 1, 2000, "Parlamentul"),
     Identity("lege", 1, 2000, "parlamentul"),
     Identity("LEGE", 2, 2000, "Parlamentul")}

InitService ==
    /\ text = <<>>
    /\ url = None
    /\ response = NoResponse
    /\ nodes = <<>>
    /\ articles = <<>>
    /\ elements = {}
    /\ last_valid_article_no = None
    /\ stack = <<>>
    /\ amendment_data = NoValue
    /\ art_amendment_map = <<>>
    /\ status = "idle"
    /\ result = NoValue
    /\ built_documents = <<>>
    /\ calls \in [1..MaxCalls ->
                    {[identity |-> i, pc |-> "pending", document |-> NoValue,
                      built |-> FALSE] : i \in Identities}]

NextService ==
    \/ \E c \in DOMAIN calls : GetDocument(c)
    \/ \E c \in DOMAIN calls : BuildDocument(c)
    \/ Build
    \/ \E c \in DOMAIN calls : BuildDocumentReturn(c)

SpecService == InitService /\ [][NextService]_vars

\* Documents of nested elements with articles of both numberings and, once
\* one is built, the structure views of it
StructureLines ==
    {<<"Cartea", "I">>, <<"Titlul", "I">>, <<"Capitolul", "I">>,
     <<"Articolul", "5">>, <<"Articolul", "III">>}

InitStructure == BuilderInit(TextsOf(StructureLines), {None}, {NoResponse})

NextStructure ==
    \/ Build
    \/ GetElementStructureById

SpecStructure == InitStructure /\ [][NextStructure]_vars

\* The range formatter on its own: every ascending list of distinct
\* numbers of 1..MaxNumber
MaxNumber == 12

\* The numbers of a set in ascending order
RECURSIVE Ascending(_)
Ascending(S) ==
    IF S = {} THEN <<>>
    ELSE LET least == CHOOSE n \in S : \A m \in S : n <= m
         IN  <<least>> \o Ascending(S \ {least})

InitRange ==
    /\ text = <<>>
    /\ url = None
    /\ response = NoResponse
    /\ nodes = <<>>
    /\ articles = <<>>
    /\ elements = {}
    /\ last_valid_article_no = None
    /\ stack = <<>>
    /\ amendment_data = NoValue
    /\ art_amendment_map = <<>>
    /\ status = "formatting"
    /\ result \in {[kind |-> "numbers", numbers |-> Ascending(S)] :
                     S \in SUBSET (1..MaxNumber)}
    /\ built_documents = <<>>
    /\ calls = <<>>

NextRange == FormatNumericRange

SpecRange == InitRange /\ [][NextRange]_vars

\* The normalization of amendment types on its own: the spellings of an
\* operation in every casing of its letters, with up to MaxBlanks blanks
\* before it, between its words and after it
MaxBlanks == 2

\* An operation is its letters and the places after which a new word starts:
\* "abrogat de" is in type_mapping, "abrogat" and "alt de" are not
Operations ==
    {[letters |-> <<"a","b","r","o","g","a","t","d","e">>, gaps |-> {7}],
     [letters |-> <<"a","b","r","o","g","a","t">>, gaps |-> {}],
     [letters |-> <<"a","l","t","d","e">>, gaps |-> {3}]}

Blanks(n) == [i \in 1..n |-> " "]

\* The letters from place i on, with blanks between the words
RECURSIVE SpellWords(_, _, _, _)
SpellWords(letters, gaps, between, i) ==
    IF i > Len(letters) THEN <<>>
    ELSE <<letters[i]>> \o (IF i \in gaps THEN Blanks(between) ELSE <<>>)
         \o SpellWords(letters, gaps, between, i + 1)

\* The letters with those at the places in capitals in upper case
Cased(letters, capitals) ==
    [i \in 1..Len(letters) |->
        IF i \in capitals THEN UpperChar(letters[i]) ELSE letters[i]]

\* A spelling of the operation: a casing of its letters, blanks before it,
\* between its words and after it
Spelling(operation, capitals, before, between, after) ==
    Blanks(before)
    \o SpellWords(Cased(operation.letters, capitals), operation.gaps, between, 1)
    \o Blanks(after)

SpellingsOf(operation) ==
    {[operation |-> operation, before |-> before, between |-> between,
      after |-> after,
      raw_type |-> Spelling(operation, capitals, before, between, after)] :
        before \in 0..MaxBlanks, between \in 0..MaxBlanks,
        after \in 0..MaxBlanks,
        capitals \in SUBSET (1..Len(operation.letters))}

RawTypes == UNION {SpellingsOf(operation) : operation \in Operations}

InitNormalize ==
    /\ text = <<>>
    /\ url = None
    /\ response = NoResponse
    /\ nodes = <<>>
    /\ articles = <<>>
    /\ elements = {}
    /\ last_valid_article_no = None
    /\ stack = <<>>
    /\ amendment_data = NoValue
    /\ art_amendment_map = <<>>
    /\ status = "normalizing"
    /\ result \in {[kind |-> "raw_type", input |-> r] : r \in RawTypes}
    /\ built_documents = <<>>
    /\ calls = <<>>

\* _normalize_amendment_type is called with a raw operation type
NormalizeAmendmentType ==
    /\ status = "normalizing"
    /\ result.kind = "raw_type"
    /\ result' = [kind |-> "normalized", input |-> result.input,
                  value |-> _normalize_amendment_type(result.input.raw_type)]
    /\ UNCHANGED <<built_documents, calls, text, url, response, nodes, articles,
                   elements, last_valid_article_no, stack, amendment_data,
                   art_amendment_map, status>>

NextNormalize == NormalizeAmendmentType

SpecNormalize == InitNormalize /\ [][NextNormalize]_vars

\* Fuzzy search on its own: a query and an occurrence, each a spelling of a
\* phrase in plain letters, and up to MaxAround blanks before and after the
\* occurrence in the text
MaxAround == 1

\* The characters a plain letter can be written as: with or without its
\* diacritics, in lower or upper case
Forms(letter) ==
    LET lower == CASE letter = "a" -> {"a", "a_breve", "a_circ"}
                   [] letter = "i" -> {"i", "i_circ"}
                   [] letter = "t" -> {"t", "t_comma", "t_cedilla"}
                   [] letter = "s" -> {"s", "s_comma", "s_cedilla"}
                   [] OTHER -> {letter}
    IN  lower \cup {SwapCase(c) : c \in lower}

\* The spellings of a phrase
RECURSIVE SpellingsOfPhrase(_)
SpellingsOfPhrase(phrase) ==
    IF phrase = <<>> THEN {<<>>}
    ELSE {<<c>> \o rest : c \in Forms(Head(phrase)),
                          rest \in SpellingsOfPhrase(Tail(phrase))}

QueryPhrases == {<<>>, <<"t", "a">>, <<"s">>, <<"t", " ", "i">>}
TextPhrases == {<<"t", "a">>, <<"s">>, <<"t", " ", "i">>, <<"t", " ", "n", " ", "i">>}

\* A search: the spelling q of a phrase as the query, the spelling t of a
\* phrase as the occurrence, with blanks before and after it in the text,
\* the number of excerpts and the context being those of the tool
Search(query_phrase, text_phrase, q, t, before, after) ==
    [query_phrase |-> query_phrase, text_phrase |-> text_phrase,
     search_query |-> q, occurrence |-> t, offset |-> before,
     text |-> Blanks(before) \o t \o Blanks(after),
     max_excerpts |-> DEFAULT_MAX_EXCERPTS,
     excerpt_context_chars |-> DEFAULT_CONTEXT_CHARS]

InitFuzzy ==
    /\ text = <<>>
    /\ url = None
    /\ response = NoResponse
    /\ nodes = <<>>
    /\ articles = <<>>
    /\ elements = {}
    /\ last_valid_article_no = None
    /\ stack = <<>>
    /\ amendment_data = NoValue
    /\ art_amendment_map = <<>>
    /\ status = "searching"
    /\ \E query_phrase \in QueryPhrases, text_phrase \in TextPhrases :
         \E q \in SpellingsOfPhrase(query_phrase),
            t \in SpellingsOfPhrase(text_phrase),
            before \in 0..MaxAround, after \in 0..MaxAround :
             result = [kind |-> "query",
                       input |-> Search(query_phrase, text_phrase, q, t,
                                        before, after)]
    /\ built_documents = <<>>
    /\ calls = <<>>

NextFuzzy == TextSearch

SpecFuzzy == InitFuzzy /\ [][NextFuzzy]_vars

\* The excerpts of text_search on their own: texts with several matches,
\* up to MaxExcerpts excerpts asked for and up to MaxContextChars characters
\* of context; both numbers are integers of the caller and can be negative
MaxExcerpts == 2
MaxContextChars == 2

ExcerptTexts ==
    {<<"t", "a">>,
     <<"n", " ", "t", "a", " ", "n">>,
     <<"t", "a", "t", "a_breve">>,
     <<"T", "a", " ", "s", " ", "t", "A_circ", " ", "n">>,
     <<"s", " ", "t", "a", " ", "n", " ", "S_comma">>}

ExcerptQueries == {<<>>, <<"t", "a">>, <<"s">>, <<"s", " ", "n">>}

InitExcerpts ==
    /\ text = <<>>
    /\ url = None
    /\ response = NoResponse
    /\ nodes = <<>>
    /\ articles = <<>>
    /\ elements = {}
    /\ last_valid_article_no = None
    /\ stack = <<>>
    /\ amendment_data = NoValue
    /\ art_amendment_map = <<>>
    /\ status = "searching"
    /\ \E txt \in ExcerptTexts, search_query \in ExcerptQueries,
          max_excerpts \in -1..MaxExcerpts,
          excerpt_context_chars \in -1..MaxContextChars :
             result = [kind |-> "query",
                       input |-> [text |-> txt, search_query |-> search_query,
                                  max_excerpts |-> max_excerpts,
                                  excerpt_context_chars |-> excerpt_context_chars]]
    /\ built_documents = <<>>
    /\ calls = <<>>

NextExcerpts == TextSearch

SpecExcerpts == InitExcerpts /\ [][NextExcerpts]_vars

\* The header search on its own: texts with headers the validator accepts,
\* rejects (a section "x", an article not above the last one) and fails on
\* (a section "a" that ends its line)
HeaderSearchLines ==
    {<<"Sectiunea", "a">>, <<"Sectiunea", "x">>, <<"Sectiunea", "1">>,
     <<"Articolul", "3">>, <<"Articolul", "5">>}

InitHeaderSearch ==
    /\ text \in TextsOf(HeaderSearchLines)
    /\ url = None
    /\ response = NoResponse
    /\ nodes = <<>>
    /\ articles = <<>>
    /\ elements = {}
    /\ last_valid_article_no \in {None, "3"}
    /\ stack = <<>>
    /\ amendment_data = NoValue
    /\ art_amendment_map = <<>>
    /\ status = "searching_header"
    /\ result \in {[kind |-> "header_query", element_type |-> t] :
                      t \in {TOP, SECTION, ARTICLE}}
    /\ built_documents = <<>>
    /\ calls = <<>>

NextHeaderSearch == FindNextValidHeader

SpecHeaderSearch == InitHeaderSearch /\ [][NextHeaderSearch]_vars

\* Documents with article headers whose first word is no number, on their
\* own and under a title
UnnumberedLines ==
    {<<"Articolul", "x">>, <<"Articolul", "5">>, <<"Articolul", "III">>,
     <<"Articolul">>, <<"Titlul", "I">>}

InitUnnumbered == BuilderInit(TextsOf(UnnumberedLines), {None}, {NoResponse})

SpecUnnumbered == InitUnnumbered /\ [][Next]_vars

----------------------------------------------------------------------------
(* Properties *)

Inside(i, p) ==
    /\ nodes[p].start_pos <= nodes[i].start_pos
    /\ nodes[i].end_pos <= nodes[p].end_pos

\* C1: after create_structured_document every element has
\* 0 <= start_pos <= end_pos <= len(text), every child's span lies inside its
\* parent's, and the children of an element are in ascending order and do
\* not overlap
C1_SpansNestedAndOrdered ==
    status = "done" =>
        /\ \A i \in DOMAIN nodes :
              /\ 0 <= nodes[i].start_pos
              /\ nodes[i].start_pos <= nodes[i].end_pos
              /\ nodes[i].end_pos <= Len(text)
              /\ nodes[i].parent # 0 => Inside(i, nodes[i].parent)
        /\ \A p \in DOMAIN nodes :
              \A i, j \in DOMAIN Children(nodes, p) :
                 i < j => nodes[Children(nodes, p)[i]].end_pos
                             <= nodes[Children(nodes, p)[j]].start_pos

\* A finished tree with an element below the top that has two children, the
\* first of which ends where the second starts
C1_Witness ==
    /\ status = "done"
    /\ \E p \in DOMAIN nodes :
          /\ nodes[p].parent # 0
          /\ Len(Children(nodes, p)) >= 2
          /\ nodes[Children(nodes, p)[1]].end_pos
                = nodes[Children(nodes, p)[2]].start_pos
          /\ nodes[p].start_pos > 0

\* C4: in every built tree a child's type is strictly deeper in the order
\* TOP < PART < BOOK < TITLE < CHAPTER < SECTION < ARTICLE than its parent's,
\* for the first child and for every later sibling; ARTICLE nodes have no
\* children
C4_ChildTypeStrictlyDeeper ==
    /\ \A i \in DOMAIN nodes :
          nodes[i].parent # 0 =>
             HierarchyIndex(nodes[nodes[i].parent].type_name)
                < HierarchyIndex(nodes[i].type_name)
    /\ \A p \in DOMAIN nodes :
          nodes[p].type_name = ARTICLE => Children(nodes, p) = <<>>

\* A finished tree in which a TITLE has a CHAPTER as its first child and a
\* later child, and the text goes on with a header of the TITLE's level or above
C4_Witness ==
    /\ status = "done"
    /\ \E p \in DOMAIN nodes :
          /\ nodes[p].type_name = TITLE
          /\ Len(Children(nodes, p)) >= 2
          /\ nodes[Children(nodes, p)[1]].type_name = CHAPTER
          /\ nodes[p].end_pos < Len(text)

\* C2: where an accepted "Articolul 5" is followed by "Articolul 3", only
\* the ARTICLE numbered "5" is created; and after an accepted article with an
\* Arabic number no element is created for a later "Articolul III"
C2_DecreaseAndRomanRejected ==
    \A i, j \in DOMAIN nodes :
       ( /\ i < j
         /\ nodes[i].type_name = ARTICLE
         /\ nodes[j].type_name = ARTICLE
         /\ nodes[i].start_pos < nodes[j].start_pos
         /\ IsInt(nodes[i].number) )
       => /\ ~InRoman(nodes[j].number)
          /\ IsInt(nodes[j].number) => IntOf(nodes[j].number) >= IntOf(nodes[i].number)

\* The tokens from the start of the line before the one of position pos up
\* to pos: the text immediately before a keyword at pos
PrecedingWindow(pos) ==
    LET newlines == {k \in 1..pos : text[k] = NL}
        earlier == {k \in newlines : \E m \in newlines : k < m}
        start == IF earlier = {} THEN 1
                 ELSE 1 + CHOOSE k \in earlier : \A m \in earlier : m <= k
    IN  SubSeq(text, start, pos)

\* C5: when the text immediately before an occurrence of a header keyword
\* holds one of the amendment-quote phrases, no element of any type is created
\* at that occurrence
C5_NoElementInAmendmentQuote ==
    \A i \in DOMAIN nodes :
       nodes[i].type_name # TOP =>
          ~Extractor_in_amendment_quote(PrecedingWindow(nodes[i].start_pos))

\* C6: create_structured_document raises for no text, be its headers
\* truncated or a keyword the last thing in it
C6_BuildNeverRaises == status # "raised"

\* _validator.last_valid_article_no when nodes[i] was searched for: the number
\* of the last article created before it
LastBefore(i) ==
    LET earlier == {j \in 1..(i - 1) : nodes[j].type_name = ARTICLE}
    IN  IF earlier = {} THEN None
        ELSE nodes[CHOOSE j \in earlier : \A k \in earlier : k <= j].number

\* The end of the header line of nodes[i] within its parent's span
HeaderLineEnd(i) ==
    LET from == nodes[i].start_pos + Len(to_keyword(nodes[i].type_name))
        upto == nodes[nodes[i].parent].end_pos
        nl == Find(Slice(text, from, upto), <<NL>>)
    IN  IF nl = -1 THEN upto ELSE from + nl

\* The smallest offset in txt of a valid header of one of the types, Len(txt)
\* when there is none
NearestHeaderStart(txt, types, last) ==
    LET starts == {_find_next_valid_header(txt, types[k], last).element_start :
                      k \in {m \in DOMAIN types :
                                _find_next_valid_header(txt, types[m], last).found}}
    IN  IF starts = {} THEN Len(txt)
        ELSE CHOOSE x \in starts : \A y \in starts : x <= y

\* C7: the end of a child of type T is the start of the nearest valid header
\* after the child's header line whose type is T or higher, or the end of the
\* parent's span when there is none
C7_EndIsNearestHeader ==
    status = "done" =>
       \A i \in DOMAIN nodes :
          nodes[i].parent # 0 =>
             nodes[i].end_pos =
                HeaderLineEnd(i)
                + NearestHeaderStart(
                     Slice(text, HeaderLineEnd(i), nodes[nodes[i].parent].end_pos),
                     get_possible_equal_or_greater_types(nodes[i].type_name),
                     LastBefore(i))

SameNumbering(prev, curr) ==
    \/ InRoman(prev) /\ InRoman(curr)
    \/ IsInt(prev) /\ IsInt(curr)

NumberValue(n) == IF InRoman(n) THEN RomanIndex(n) ELSE IntOf(n)

\* C3: an article candidate compared with the previously accepted number of
\* the same numbering system is accepted if and only if its number is >= the
\* previous one, an equal number included, in Arabic and in Roman numbering
C3_AcceptedIffNotLess ==
    ( /\ result.kind \in {"Validator", "Extractor"}
      /\ result.prev # None
      /\ SameNumbering(result.prev, result.curr) )
    => (result.valid <=> NumberValue(result.curr) >= NumberValue(result.prev))

\* The amendments the parser recorded for the article of a number
RecordedForArticle(number) ==
    SelectSeq(amendment_data.amendments,
              LAMBDA a : /\ a.target_element_type = PartType("ARTICLE")
                         /\ a.target_element_no = number)

\* C8: for a built document with amendment data, get_article(n) returns as
\* its amendments exactly the entries of AmendmentData.amendments, in their
\* order, whose target type is ARTICLE and whose target number is n
C8_ArticleAmendmentsReturned ==
    ( /\ result.kind = "articles"
      /\ amendment_data.kind = "AmendmentData"
      /\ \A k \in DOMAIN result.asked : result.asked[k] \in DOMAIN articles )
    => /\ ~result.raised
       /\ Len(result.results) = Len(result.asked)
       /\ \A k \in DOMAIN result.asked :
             /\ result.results[k].kind = "ResultElement"
             /\ result.results[k].amendments = RecordedForArticle(result.asked[k])

\* C9: the structural amendment data holds exactly the amendments whose
\* target is no ARTICLE, in their order and with the same
\* is_document_repealed; no amendment recorded for an article is in it
C9_GeneralDataExcludesArticles ==
    (result.kind = "general" /\ amendment_data.kind = "AmendmentData")
    => result.data =
          AmendmentData(
             SelectSeq(amendment_data.amendments,
                       LAMBDA a : a.target_element_type # PartType("ARTICLE")),
             amendment_data.is_document_repealed)

\* The fetch of the amendments failed: the request, the status, the JSON
\* (the "acte" field included) or the parse of a row of the table
FetchFailed ==
    \/ response.outcome # "ok"
    \/ \E i \in DOMAIN response.rows : ParseRow(response.rows[i]).kind = "raise"

\* C10: on any network, HTTP-status, JSON or HTML-parse failure, a response
\* with no "acte" field included, get_amendment_data returns an AmendmentData
\* with no amendments and is_document_repealed false
C10_FailureGivesEmptyAmendmentData ==
    (status = "done" /\ url # "" /\ FetchFailed)
    => amendment_data = AmendmentData(<<>>, FALSE)

\* A request for articles that names a number of no article of the document
AsksMissingArticle ==
    /\ result.kind = "articles"
    /\ \E k \in DOMAIN result.asked : result.asked[k] \notin DOMAIN articles

\* A search in an element of an id that is not in the element index
AsksMissingElement == result.kind = "search" /\ result.id \notin elements

\* What a not-found query returns: get_articles one entry per number asked
\* for, an error entry at the place of every missing one, search_in_element
\* an error entry; neither raises
NotFoundIsStructured ==
    /\ AsksMissingArticle =>
          /\ ~result.raised
          /\ Len(result.results) = Len(result.asked)
          /\ \A k \in DOMAIN result.asked :
                IF result.asked[k] \in DOMAIN articles
                THEN result.results[k].kind = "ResultElement"
                ELSE result.results[k] = [kind |-> "error", number |-> result.asked[k]]
    /\ AsksMissingElement => result.value = [kind |-> "error", id |-> result.id]

\* A not-found query leaves the tree, the indices and the memo unchanged
NotFoundLeavesDocument ==
    (AsksMissingArticle' \/ AsksMissingElement')
    => UNCHANGED <<nodes, articles, elements, art_amendment_map>>

\* C11: a query for an article number or an element id that is not in the
\* document returns a structured not-found result (get_articles one error
\* entry per missing article, in request order alongside the found ones;
\* search_in_element an error entry) without raising, and leaves the tree,
\* the indices and the memo caches unchanged
C11_NotFoundIsStructured ==
    []NotFoundIsStructured /\ [][NotFoundLeavesDocument]_vars

\* The children of a node that are no articles
NonArticleChildren(id) ==
    {c \in 1..Len(nodes) : nodes[c].parent = id /\ nodes[c].type_name # ARTICLE}

\* C12: after a build, max_depth of every node is 0 when the node has no
\* non-article children and 1 + the greatest max_depth of its non-article
\* children otherwise
C12_MaxDepthIsHeight ==
    status \in {"structured", "done"}
    => \A id \in 1..Len(nodes) :
          nodes[id].type_name # ARTICLE
          => nodes[id].max_depth =
                IF NonArticleChildren(id) = {} THEN 0
                ELSE 1 + (CHOOSE d \in {nodes[c].max_depth : c \in NonArticleChildren(id)} :
                            \A c \in NonArticleChildren(id) : nodes[c].max_depth <= d)

\* C13: after a build the article index agrees with the tree: every ARTICLE
\* node of the tree is the value stored under its own number in the article
\* index, and the index holds nothing but ARTICLE nodes of the tree
C13_ArticleIndexAgreesWithTree ==
    status \in {"structured", "done"}
    => /\ \A id \in 1..Len(nodes) :
             nodes[id].type_name = ARTICLE
             => /\ nodes[id].number \in DOMAIN articles
                /\ articles[nodes[id].number] = id
       /\ \A number \in DOMAIN articles :
             /\ articles[number] \in 1..Len(nodes)
             /\ nodes[articles[number]].type_name = ARTICLE

\* The tree of a built document: type, number, title and span of every node
TreeOf(document) ==
    [id \in DOMAIN document.nodes |->
        [type_name |-> document.nodes[id].type_name,
         number |-> document.nodes[id].number,
         title |-> document.nodes[id].title,
         start_pos |-> document.nodes[id].start_pos,
         end_pos |-> document.nodes[id].end_pos]]

\* C14: two builds of the same text, each by a builder of its own, give
\* trees equal in type, number, title, start_pos and end_pos at every node,
\* whatever was built before or in between: the article state of one build
\* has no effect on another
C14_BuildsAreIndependent ==
    \A i, j \in DOMAIN built_documents :
       built_documents[i].document.text = built_documents[j].document.text
       => TreeOf(built_documents[i].document) = TreeOf(built_documents[j].document)

\* The same text was built first and third, both times with its article 3,
\* and a document with article 5 in between
C14_Witness ==
    /\ Len(built_documents) = 3
    /\ built_documents[1].document.text = <<"Articolul", "3">>
    /\ built_documents[2].document.text = <<"Articolul", "5">>
    /\ built_documents[3].document.text = <<"Articolul", "3">>
    /\ \E id \in DOMAIN built_documents[3].document.nodes :
          /\ built_documents[3].document.nodes[id].type_name = ARTICLE
          /\ built_documents[3].document.nodes[id].number = "3"

\* Two calls for the same identity, both made before the cache held the
\* identity, have both returned a document
BothReturned(a, b) ==
    /\ a # b
    /\ calls[a].identity = calls[b].identity
    /\ calls[a].pc = "done" /\ calls[a].document # NoValue
    /\ calls[b].pc = "done" /\ calls[b].document # NoValue

\* The cache entries of an identity
EntriesOf(identity) ==
    {i \in DOMAIN built_documents : SameIdentity(built_documents[i], identity)}

\* C15 as stated: two overlapping calls of get_document for the same
\* identity both miss the cache and both build, and the cache ends with
\* more than one entry for the identity
C15_OverlappingCallsBuildTwice ==
    \A a, b \in DOMAIN calls :
       BothReturned(a, b)
       => /\ calls[a].built /\ calls[b].built
          /\ Cardinality(EntriesOf(calls[a].identity)) > 1

\* C15: of the calls of get_document for the same identity that were made
\* before the cache held it, one builds and the others hit the cache and
\* return the same document: the cache never holds more than one entry for
\* an identity
C15_OverlappingCallsBuildOnce ==
    /\ \A a, b \in DOMAIN calls :
          BothReturned(a, b)
          => /\ ~(calls[a].built /\ calls[b].built)
             /\ calls[a].document = calls[b].document
    /\ \A c \in DOMAIN calls : Cardinality(EntriesOf(calls[c].identity)) <= 1

\* Two calls for the same identity have returned: the first built, the
\* second did not, and the cache holds the one entry
C15_Witness ==
    /\ BothReturned(1, 2)
    /\ calls[1].built /\ ~calls[2].built
    /\ Cardinality(EntriesOf(calls[1].identity)) = 1

\* The text has the keyword of no element type
NoHierarchyKeyword ==
    \A t \in {PART, BOOK, TITLE, CHAPTER, SECTION, ARTICLE} : Find(text, to_keyword(t)) = -1

\* C16: a text with the keyword "ARTICOL" and no other hierarchy keyword
\* gives a tree with exactly one ARTICLE element, numbered "UNIC", from the
\* keyword to the end of the span
C16_SingleArticleShortcut ==
    ( /\ status \in {"structured", "done"}
      /\ Find(text, <<"ARTICOL">>) # -1
      /\ NoHierarchyKeyword )
    => /\ Len(nodes) = 2
       /\ nodes[2].type_name = ARTICLE
       /\ nodes[2].number = "UNIC"
       /\ nodes[2].start_pos = Find(text, <<"ARTICOL">>)
       /\ nodes[2].end_pos = Len(text)

\* The maximal runs of consecutive numbers of a set, as pairs <<first, last>>
MaximalRuns(S) ==
    {run \in S \X S :
        /\ run[1] <= run[2]
        /\ \A n \in run[1]..run[2] : n \in S
        /\ run[1] - 1 \notin S
        /\ run[2] + 1 \notin S}

\* The runs in ascending order, a run of one number written "n" and a
\* longer one "first-last"
RECURSIVE RunsWritten(_)
RunsWritten(runs) ==
    IF runs = {} THEN <<>>
    ELSE LET first == CHOOSE r \in runs : \A q \in runs : r[1] <= q[1]
         IN  <<IF first[1] = first[2] THEN PyStr(first[1])
               ELSE PyStr(first[1]) \o <<"-">> \o PyStr(first[2])>>
             \o RunsWritten(runs \ {first})

\* C18: for every ascending list of distinct integers the range formatter
\* gives the maximal runs of consecutive integers of the list, in ascending
\* order and joined by ", ", a run of one number as "n" and a longer run as
\* "first-last"; the empty list gives the empty string
C18_RangesAreMaximalRuns ==
    result.kind = "range"
    => /\ result.value =
             Join(<<",", " ">>,
                  RunsWritten(MaximalRuns({result.numbers[i] : i \in DOMAIN result.numbers})))
       /\ result.numbers = <<>> => result.value = <<>>

\* [1,2,3,5,7,8,9,12] was formatted as "1-3, 5, 7-9, 12"
C18_Witness ==
    /\ result.kind = "range"
    /\ result.numbers = <<1, 2, 3, 5, 7, 8, 9, 12>>
    /\ result.value = <<"1", "-", "3", ",", " ", "5", ",", " ", "7", "-", "9",
                        ",", " ", "1", "2">>

\* A view of the element id at depth depth has the key "children" exactly
\* when depth is below max_depth and the element has non-article children,
\* and then one view per such child, each limited in the same way
RECURSIVE ViewIsLimited(_, _, _, _)
ViewIsLimited(view, id, depth, max_depth) ==
    /\ view.id = id
    /\ ("children" \in DOMAIN view)
          <=> (depth < max_depth /\ non_article_children(id) # <<>>)
    /\ "children" \in DOMAIN view
          => /\ Len(view.children) = Len(non_article_children(id))
             /\ \A k \in 1..Len(view.children) :
                   ViewIsLimited(view.children[k], non_article_children(id)[k],
                                 depth + 1, max_depth)

\* C17: the element structure view is depth-limited: with max_depth = 0 the
\* result has no key "children" even when the element has non-article
\* children, with max_depth = 1 it has exactly one level of children, and
\* in general the children are included only while the current depth is
\* below max_depth
C17_ViewIsDepthLimited ==
    (result.kind = "structure" /\ result.id \in elements)
    => /\ ViewIsLimited(result.value, result.id, 0, result.max_depth)
       /\ result.max_depth = 0 => "children" \notin DOMAIN result.value

\* A view of one level of an element whose child has non-article children
\* of its own: the child is in the view, its children are not
C17_Witness ==
    /\ result.kind = "structure"
    /\ result.id \in elements
    /\ result.max_depth = 1
    /\ "children" \in DOMAIN result.value
    /\ non_article_children(non_article_children(result.id)[1]) # <<>>
    /\ "children" \notin DOMAIN result.value.children[1]

\* The category the table gives an operation spelled in capitals without
\* blanks, None when the table has no entry for it
CategoryOf(operation) ==
    IF \E m \in type_mapping : m[1] = Cased(operation.letters, 1..Len(operation.letters))
    THEN (CHOOSE m \in type_mapping :
            m[1] = Cased(operation.letters, 1..Len(operation.letters)))[2]
    ELSE None

\* C19: every spelling of an operation of the table, whatever the casing of
\* its letters and the blanks before it, between its words and after it,
\* normalizes to the category of the operation; a spelling of an operation
\* the table does not have comes back with its letters in lower case and its
\* blanks where they were.
C19_NormalizationIgnoresCaseAndBlanks ==
    result.kind = "normalized" =>
        IF CategoryOf(result.input.operation) # None
        THEN result.value = CategoryOf(result.input.operation)
        ELSE result.value = Spelling(result.input.operation, {},
                                     result.input.before, result.input.between,
                                     result.input.after)

\* 'Abrogat  de' has been normalized to 'repealed', and so has 'abrogatde'
C19_Witness ==
    /\ result.kind = "normalized"
    /\ result.input.raw_type \in
         {<<"A","b","r","o","g","a","t"," "," ","d","e">>,
          <<"a","b","r","o","g","a","t","d","e">>}
    /\ result.value = Repealed

\* The excerpts say that the occurrence was matched, from its first character
\* to its last
OccurrenceMatched ==
    \E i \in DOMAIN result.value.excerpts :
        /\ result.value.excerpts[i].position_in_document = result.input.offset
        /\ result.value.excerpts[i].match_length = Len(result.input.occurrence)

\* C20: a query matches an occurrence in the text whenever the two are
\* spellings of the same phrase, that is, differ only by characters of the
\* same diacritic class (a, i, t, s with or without their diacritics) and by
\* the case of letters.
C20_FuzzyMatchIgnoresDiacriticsAndCase ==
    (/\ result.kind = "found"
     /\ result.input.query_phrase = result.input.text_phrase)
        => OccurrenceMatched

\* The query "ta" has been searched in a text where the word is written with
\* T with comma below and A with circumflex, and the word was matched
C20_Witness ==
    /\ result.kind = "found"
    /\ result.input.search_query = <<"t", "a">>
    /\ result.input.occurrence = <<"T_comma", "A_circ">>
    /\ result.input.offset = 1
    /\ OccurrenceMatched

\* The matches of the query of the search in its text, from left to right
MatchesOfSearch ==
    finditer(create_fuzzy_romanian_pattern(result.input.search_query, TRUE),
             result.input.text, 0)

\* Excerpt i is the one of match i: its window is the text from c characters
\* before the match (not before offset 0) to c characters after it (not
\* after the end), and the window cut at the offsets the excerpt gives is
\* the matched text
ExcerptIsOfMatch(i) ==
    LET excerpt == result.value.excerpts[i]
        s == MatchesOfSearch[i].start
        e == MatchesOfSearch[i].end
        c == result.input.excerpt_context_chars
        txt == result.input.text
    IN  /\ excerpt.position_in_document = s
        /\ excerpt.match_length = e - s
        /\ excerpt.text = SubSeq(txt, (IF s - c > 0 THEN s - c ELSE 0) + 1,
                                 IF e + c < Len(txt) THEN e + c ELSE Len(txt))
        /\ excerpt.match_start_in_excerpt \in 0..Len(excerpt.text)
        /\ excerpt.match_end_in_excerpt \in 0..Len(excerpt.text)
        /\ SubSeq(excerpt.text, excerpt.match_start_in_excerpt + 1,
                  excerpt.match_end_in_excerpt)
           = SubSeq(txt, s + 1, e)

ExcerptsAreFirstMatches ==
    /\ Len(result.value.excerpts)
       = Min(result.value.total_matches, result.input.max_excerpts)
    /\ result.value.showing_excerpts = Len(result.value.excerpts)
    /\ result.value.total_matches = Len(MatchesOfSearch)
    /\ \A i \in DOMAIN result.value.excerpts : ExcerptIsOfMatch(i)
    /\ \A i \in DOMAIN result.value.excerpts :
          i > 1 => result.value.excerpts[i - 1].position_in_document
                   < result.value.excerpts[i].position_in_document

\* C21 as stated: for every result of text_search with at least one match
\* and max_excerpts >= 0, the excerpts are the first min(total_matches,
\* max_excerpts) matches in ascending position, each with the window
\* text[max(0, s - c) : min(len(text), e + c)], the window cut at
\* [match_start_in_excerpt : match_end_in_excerpt] is the matched text, and
\* showing_excerpts is the number of excerpts.
C21_ExcerptsForAnyContext ==
    (/\ result.kind = "found"
     /\ result.value.total_matches > 0
     /\ result.input.max_excerpts >= 0)
        => ExcerptsAreFirstMatches

\* C21: the same for every result with at least one match, max_excerpts >= 0
\* and a context size that is not negative.
C21_ExcerptsAreWindowsOfFirstMatches ==
    (/\ result.kind = "found"
     /\ result.value.total_matches > 0
     /\ result.input.max_excerpts >= 0
     /\ result.input.excerpt_context_chars >= 0)
        => ExcerptsAreFirstMatches

\* "ta" was searched in "Ta s tÂ n" with one excerpt and one character of
\* context: two matches, one excerpt, its window clamped at the start
C21_Witness ==
    /\ result.kind = "found"
    /\ result.input.search_query = <<"t", "a">>
    /\ result.input.max_excerpts = 1
    /\ result.input.excerpt_context_chars = 1
    /\ result.value.total_matches = 2
    /\ Len(result.value.excerpts) = 1
    /\ result.value.excerpts[1].text = <<"T", "a", " ">>
    /\ result.value.excerpts[1].match_start_in_excerpt = 0

\* A search in an element of the index has returned or raised
SearchedElement == result.kind = "search" /\ result.id \in elements

\* The excerpt of a search in element E from start_pos gives the offset of
\* its match in the element and in the document, and the document has the
\* matched text there
ExcerptIsTranslated(excerpt) ==
    /\ {"match_start_in_element", "match_start_in_document"} \subseteq DOMAIN excerpt
    /\ excerpt.match_start_in_element
       = excerpt.position_in_document + result.start_pos
    /\ excerpt.match_start_in_document
       = excerpt.match_start_in_element + nodes[result.id].start_pos
    /\ SubSeq(text, excerpt.match_start_in_document + 1,
              excerpt.match_start_in_document + excerpt.match_length)
       = <<result.query>>

\* C22: search_in_element on an element E with range start start_pos
\* returns its excerpts, each with match_start_in_element = the position of
\* the match in the searched range + start_pos and match_start_in_document =
\* match_start_in_element + E.start_pos, so that the document text at
\* [match_start_in_document : match_start_in_document + match_length] is the
\* matched text.
C22_SearchOffsetsAreTranslated ==
    SearchedElement =>
        /\ result.value # Raised
        /\ \A i \in DOMAIN result.value.excerpt_data.excerpts :
              ExcerptIsTranslated(result.value.excerpt_data.excerpts[i])

\* The text of the element searched: text[E.start_pos : E.end_pos]
ElementSpan == SubSeq(text, nodes[result.id].start_pos + 1, nodes[result.id].end_pos)

\* A search with the default range in an element whose last word is the
\* query
SearchedToLastWord ==
    /\ SearchedElement
    /\ result.start_pos = 0
    /\ ElementSpan # <<>>
    /\ ElementSpan[Len(ElementSpan)] = result.query

\* C25: search_in_element with the default range (start_pos = 0, end_pos =
\* -1) searches the whole span text[E.start_pos : E.end_pos] of the element:
\* a match that ends with the last character of the element is found and
\* counted in total_matches.
C25_DefaultRangeIsWholeElement ==
    SearchedToLastWord =>
        /\ result.value # Raised
        /\ result.value.excerpt_data.total_matches
           = Len(FindIter(ElementSpan, result.query))

\* The offset of the end of the line that offset p is in
RECURSIVE LineEnd(_, _)
LineEnd(txt, p) ==
    IF p >= Len(txt) \/ txt[p + 1] = NL THEN Min(p, Len(txt))
    ELSE LineEnd(txt, p + 1)

\* The header of the keyword occurrence at offset i: the rest of its line
HeaderAt(txt, i) == SubSeq(txt, i + 2, LineEnd(txt, i + 1))

\* The offsets of the occurrences of the keyword of a type whose header the
\* validator accepts
ValidOccurrences(txt, element_type, last) ==
    IF NoKeyword(element_type) THEN {}
    ELSE {i \in 0..(Len(txt) - 1) :
            /\ txt[i + 1] = to_keyword(element_type)[1]
            /\ validate_header(HeaderAt(txt, i), element_type, last) = Accept}

SmallestOf(S) == CHOOSE i \in S : \A j \in S : i <= j

\* What the header search is to return for the occurrences that validate
SearchReturnsFirstValid(value, valid) ==
    /\ ~value.raised
    /\ value.found <=> valid # {}
    /\ value.found =>
          /\ value.element_start = SmallestOf(valid)
          /\ value.title_start = SmallestOf(valid) + 1
          /\ value.title_end = LineEnd(text, SmallestOf(valid) + 1)
          /\ value.header = HeaderAt(text, SmallestOf(valid))

\* C23: for every text and element type the header search returns the
\* keyword occurrence with the smallest offset whose header passes
\* validation, its element_start, title_start and title_end being offsets
\* into the text passed in, and returns nothing if and only if no occurrence
\* validates.
C23_HeaderSearchReturnsFirstValid ==
    result.kind = "header" =>
        SearchReturnsFirstValid(result.value,
            ValidOccurrences(text, result.element_type, last_valid_article_no))

\* The first word of a header is a positive integer or a Roman numeral
HasArticleNumber(header) ==
    /\ header # <<>>
    /\ InRoman(header[1]) \/ (IsInt(header[1]) /\ IntOf(header[1]) > 0)

\* C24: an ARTICLE header whose first word is neither a positive integer nor
\* a Roman numeral is rejected in every state of the validator, also when no
\* article was accepted yet and when the last accepted number is Arabic: no
\* ARTICLE element, with a placeholder for its number, is ever made from such
\* a header.
C24_UnnumberedArticleRejected ==
    \A n \in DOMAIN nodes :
        nodes[n].type_name = ARTICLE =>
            /\ HasArticleNumber(HeaderAt(text, nodes[n].start_pos))
            /\ nodes[n].number # "0"

\* Two calls have returned a document each; no two calls overlap, so one of
\* them ran after the other had returned
ReturnedInSequence(a, b) ==
    /\ a # b
    /\ calls[a].pc = "done" /\ calls[a].document # NoValue
    /\ calls[b].pc = "done" /\ calls[b].document # NoValue

\* C26: two get_document requests, one after the other, that name the same
\* document with a differently spelled but canonically equal type or issuer
\* get the same cached StructuredDocument: the second is a cache hit and
\* builds nothing, so at most one of the two has built.
C26_CanonicallyEqualRequestsShareDocument ==
    \A a, b \in DOMAIN calls :
        (/\ ReturnedInSequence(a, b)
         /\ CanonicalIdentity(calls[a].identity) = CanonicalIdentity(calls[b].identity))
            => /\ ~(calls[a].built /\ calls[b].built)
               /\ calls[b].document = calls[a].document

\* What a filter of the amendment data without the memo gives for an article
UncachedForArticle(number) ==
    IF amendment_data.kind = "AmendmentData" THEN RecordedForArticle(number)
    ELSE <<>>

\* A query returns for every article it finds what the uncached filter gives
QueryIsUncachedFilter ==
    result.kind = "articles" =>
        \A k \in DOMAIN result.asked :
            result.asked[k] \in DOMAIN articles =>
                /\ ~result.raised
                /\ result.results[k].amendments = UncachedForArticle(result.asked[k])

\* A query that follows a query returns for an article of both the
\* amendments the first one returned
RepeatedQueryAgrees ==
    (result.kind = "articles" /\ result'.kind = "articles") =>
        \A j \in DOMAIN result.asked, k \in DOMAIN result'.asked :
            (result.asked[j] = result'.asked[k] /\ result.asked[j] \in DOMAIN articles)
                => /\ ~result.raised /\ ~result'.raised
                   /\ result'.results[k].amendments = result.results[j].amendments

\* An entry of the memo, once made, is never changed by a later query
MemoEntriesKept ==
    \A number \in DOMAIN art_amendment_map :
        /\ number \in DOMAIN art_amendment_map'
        /\ art_amendment_map'[number] = art_amendment_map[number]

\* C27: the memo of the amendments of an article is transparent and
\* idempotent: after any sequence of article queries a repeated get_article
\* of a number returns the amendment list of the first call, which is what
\* a filter of the amendment data without the memo gives, and a query never
\* changes the entry memoized for another article.
C27_AmendmentMemoIsTransparent ==
    /\ []QueryIsUncachedFilter
    /\ [][RepeatedQueryAgrees /\ MemoEntriesKept]_vars

\* The build is over and it had no amendments to read: the document has no
\* url, or the fetch of its amendments failed
BuiltWithoutAmendments ==
    /\ status = "done"
    /\ \/ url \in {None, ""}
       \/ response.outcome \in {"network_error", "http_error", "json_error",
                                "decode_error"}

\* C29: after a build whose amendment fetch failed, and after a build of a
\* document without url, every later get_articles and every query of the
\* structural amendments returns: an article that is found comes back with
\* its content and an empty list of amendments, and nothing is raised
\* because the amendment data is missing or empty.
C29_QueriesSurviveMissingAmendments ==
    BuiltWithoutAmendments =>
        /\ result.kind = "articles" =>
              /\ ~result.raised
              /\ \A k \in DOMAIN result.asked :
                    result.asked[k] \in DOMAIN articles =>
                        /\ result.results[k].kind = "ResultElement"
                        /\ result.results[k].content
                           = Slice(text, nodes[articles[result.asked[k]]].start_pos,
                                   nodes[articles[result.asked[k]]].end_pos)
                        /\ result.results[k].amendments = <<>>
        /\ result.kind = "general" => result.data # Raised

\* The article nodes[i] ends where another "Articolul" occurrence begins
EndsAtArticleKeyword(i) ==
    /\ nodes[i].type_name = ARTICLE
    /\ nodes[i].end_pos < Len(text)
    /\ text[nodes[i].end_pos + 1] = to_keyword(ARTICLE)[1]

\* C28: the end of an ARTICLE numbered n is searched with the validator
\* judging against n: an "Articolul" occurrence that is not a valid next
\* article after n (a lower number, another numbering system) never ends the
\* span of article n.
C28_ArticleEndJudgedAgainstItself ==
    status = "done" =>
       \A i \in DOMAIN nodes :
          EndsAtArticleKeyword(i) =>
             validate_header(HeaderAt(text, nodes[i].end_pos), ARTICLE,
                             nodes[i].number) = Accept

\* An iteration of a parent's scan that makes a child: the child ends after
\* the absolute offset the iteration started from, and so does the next one
ScanAdvances ==
    Len(nodes') > Len(nodes) =>
       /\ nodes'[Len(nodes')].end_pos
             > nodes[TopFrame.element].start_pos + TopFrame.search_start
       /\ stack'[Len(stack')].search_start > TopFrame.search_start

\* The headers that the scan of the top frame finds first and rejects
RejectedFirstHeaders ==
    LET txt == SliceFrom(ParentText(TopFrame), TopFrame.search_start)
    IN  {[text |-> txt, keyword |-> to_keyword(TopFrame.valid_types[k]),
          header |-> _find_element_header(txt, TopFrame.valid_types[k])] :
            k \in {m \in DOMAIN TopFrame.valid_types :
                     LET h == _find_element_header(txt, TopFrame.valid_types[m])
                     IN  /\ h.found
                         /\ validate_header(h.header, TopFrame.valid_types[m],
                                            last_valid_article_no) = Reject}}

\* The search that goes on after a rejected header starts at least a keyword
\* further, within the text
SkipAdvances ==
    (status = "building" /\ stack # <<>> /\ TopFrame.phase = "scan") =>
       \A r \in RejectedFirstHeaders :
          /\ Len(r.keyword) > 0
          /\ SkipPos(r.header, r.keyword) >= Len(r.keyword)
          /\ SkipPos(r.header, r.keyword) <= Len(r.text)

\* A recursive call is for a child of the caller's element, and looks for
\* types strictly deeper than the child's, which is deeper than its parent
RecursionDescends ==
    Len(stack') > Len(stack) =>
       LET callee == stack'[Len(stack')]
       IN  /\ nodes[callee.element].parent = TopFrame.element
           /\ HierarchyIndex(nodes[callee.element].type_name)
                 > HierarchyIndex(nodes[TopFrame.element].type_name)
           /\ \A k \in DOMAIN callee.valid_types :
                 HierarchyIndex(callee.valid_types[k])
                    > HierarchyIndex(nodes[callee.element].type_name)

\* The children of the element of stack[k] that _find_elements_recursive has
\* still to be called for
PendingCalls(k) ==
    LET children == Children(nodes, stack[k].element)
    IN  Cardinality({i \in DOMAIN children :
                       /\ nodes[children[i]].type_name # ARTICLE
                       /\ IF k = Len(stack) THEN i >= stack[k].child_idx
                          ELSE i > stack[k].child_idx})

RECURSIVE SumOver(_, _)

SumOver(F(_), k) == IF k = 0 THEN 0 ELSE F(k) + SumOver(F, k - 1)

\* The steps a call on the stack has left of its own: the end of its scan
\* and its return
OwnSteps(k) == IF stack[k].phase = "scan" THEN 2 ELSE 1

\* A bound of the steps the build has left: every token of the text may
\* still start one element (a step for it, and a call, an end of scan and a
\* return if it is no article), every element waiting for its call has those
\* three, every call on the stack has its own, and the build has its last step
StepsLeft ==
    4 * (Len(text) + 1 - Len(nodes))
    + 3 * SumOver(PendingCalls, Len(stack))
    + SumOver(OwnSteps, Len(stack))
    + (IF status \in {"building", "structured"} THEN 1 ELSE 0)

\* A build that has not ended has a call on the stack or only its last step left
BuildGoesOn ==
    /\ status = "building" => stack # <<>>
    /\ StepsLeft >= 0

\* C30: every build comes to an end: each iteration of a parent's scan makes
\* a child whose end_pos is greater than the absolute offset the iteration
\* started from, so the scan offset increases; a search that skips a rejected
\* header goes on at least a keyword further; a recursive call descends to a
\* child of strictly deeper type; and so every step of the build takes from a
\* bound of the steps left, which is never negative.
C30_BuildTerminates ==
    /\ [](BuildGoesOn /\ SkipAdvances)
    /\ [][StepsLeft' < StepsLeft /\ ScanAdvances /\ RecursionDescends]_vars

\* A finished build whose scan of the TOP made two children, that recursed
\* into a TITLE with a child of its own, and whose search for the end of an
\* article skipped a rejected "Articolul" inside the article's span
C30_Witness ==
    /\ status = "done"
    /\ Len(Children(nodes, 1)) >= 2
    /\ \E i, j \in DOMAIN nodes :
          /\ nodes[i].type_name = TITLE
          /\ nodes[j].parent = i
    /\ \E a \in DOMAIN nodes :
          /\ nodes[a].type_name = ARTICLE
          /\ \E p \in (nodes[a].start_pos + 1)..(nodes[a].end_pos - 1) :
                text[p + 1] = to_keyword(ARTICLE)[1]

====
